---- MODULE Spec2Model ----
(***************************************************************************)
(* Model of the mean-preserving interpolation core of                      *)
(* cmip7_scenariomip_ghg_generation:                                       *)
(*   mean_preserving_interpolation/lai_kaplan.py   (LaiKaplanInterpolator) *)
(*   mean_preserving_interpolation/grouping.py     (group utilities)       *)
(*                                                                         *)
(* Floating point values are modelled by exact rationals <<num, den>>      *)
(* (den > 0, lowest terms), so every statement is about exact arithmetic.  *)
(* Arrays are sequences; a numpy index i is position i + 1.                *)
(***************************************************************************)
EXTENDS Integers, Sequences, FiniteSets, TLC

(***************************************************************************)
(* Bounds of the model                                                     *)
(***************************************************************************)
\* largest number of input intervals (y_in.size)
MaxN == 4

(***************************************************************************)
(* Exact rational arithmetic                                               *)
(***************************************************************************)
AbsInt(a) == IF a < 0 THEN -a ELSE a

RECURSIVE GcdNat(_, _)
GcdNat(a, b) == IF b = 0 THEN a ELSE GcdNat(b, a % b)

\* the rational n/d in lowest terms with a positive denominator (d # 0)
Norm(n, d) ==
    LET g == GcdNat(AbsInt(n), AbsInt(d))
        s == IF d < 0 THEN -1 ELSE 1
    IN  <<s * (n \div g), s * (d \div g)>>

R(i) == <<i, 1>>
Zero == <<0, 1>>
Half == <<1, 2>>

\* over the least common denominator
RAdd(a, b) ==
    IF a[2] = b[2] THEN Norm(a[1] + b[1], a[2])
    ELSE LET g == GcdNat(a[2], b[2])
             l == (a[2] \div g) * b[2]
         IN  Norm(a[1] * (l \div a[2]) + b[1] * (l \div b[2]), l)

RNeg(a) == <<-a[1], a[2]>>
RSub(a, b) == RAdd(a, RNeg(b))

\* cross-reduced before multiplying
RMul(a, b) ==
    IF a[1] = 0 \/ b[1] = 0 THEN <<0, 1>>
    ELSE LET g1 == GcdNat(AbsInt(a[1]), b[2])
             g2 == GcdNat(AbsInt(b[1]), a[2])
         IN  Norm((a[1] \div g1) * (b[1] \div g2), (a[2] \div g2) * (b[2] \div g1))

\* b # 0
RDiv(a, b) == RMul(a, IF b[1] < 0 THEN <<-b[2], -b[1]>> ELSE <<b[2], b[1]>>)

RSign(a) == IF a[1] < 0 THEN -1 ELSE IF a[1] = 0 THEN 0 ELSE 1
RLess(a, b) == RSign(RSub(a, b)) < 0
RLeq(a, b) == RSign(RSub(a, b)) <= 0
RAbs(a) == <<AbsInt(a[1]), a[2]>>
RIsInt(a) == a[2] = 1

\* the sequence s with every element evaluated
Strict(s) == <<>> \o s

\* element-wise helpers on sequences of rationals
SeqMap1(Op(_), s) == Strict([i \in 1..Len(s) |-> Op(s[i])])
RSeq(s) == Strict([i \in 1..Len(s) |-> R(s[i])])
Slice(s, lo, hi) == Strict([i \in 1..(IF hi >= lo THEN hi - lo + 1 ELSE 0) |-> s[lo + i - 1]])

RECURSIVE RSum(_)
RSum(s) == IF s = <<>> THEN Zero ELSE RAdd(s[1], RSum(Tail(s)))

(***************************************************************************)
(* numpy.polynomial.Polynomial on domain = window = [0, 1]: a polynomial   *)
(* is the sequence of its coefficients, lowest degree first                *)
(***************************************************************************)
\* Polynomial.integ(): antiderivative with integration constant 0
PolyInteg(p) == Strict([k \in 1..(Len(p) + 1) |-> IF k = 1 THEN Zero ELSE RDiv(p[k - 1], R(k - 1))])

RECURSIVE PolyHorner(_, _, _)
PolyHorner(p, u, k) ==
    IF k > Len(p) THEN Zero ELSE RAdd(p[k], RMul(u, PolyHorner(p, u, k + 1)))

\* Polynomial.__call__
PolyCall(p, u) == PolyHorner(p, u, 1)

\* a basis that joins the two end values by a straight line and ignores the
\* gradients
LinearBasis(i, j) ==
    IF i = 0 /\ j = 0 THEN RSeq(<<1, -1, 0, 0>>)
    ELSE IF i = 0 /\ j = 1 THEN RSeq(<<0, 1, 0, 0>>)
    ELSE RSeq(<<0, 0, 0, 0>>)

\* HERMITE_CUBICS[i][j]
HERMITE_CUBICS(i, j) ==
    IF i = 0 /\ j = 0 THEN RSeq(<<1, 0, -3, 2>>)
    ELSE IF i = 0 /\ j = 1 THEN RSeq(<<0, 0, 3, -2>>)
    ELSE IF i = 1 /\ j = 0 THEN RSeq(<<0, 1, -2, 1>>)
    ELSE RSeq(<<0, 0, -1, 1>>)

\* HERMITE_QUARTICS[i][j]
HERMITE_QUARTICS(i, j) == PolyInteg(HERMITE_CUBICS(i, j))

(***************************************************************************)
(* LaiKaplanArray: [lai_kaplan_idx_min, lai_kaplan_stride, data]           *)
(* An IndexError of the index translation is the data index -1.            *)
(***************************************************************************)
None == <<>>
IndexError == -1

LaiKaplanArray(idx_min, stride, data) ==
    [lai_kaplan_idx_min |-> idx_min, lai_kaplan_stride |-> stride, data |-> data]

\* an index translation that rounds down to the nearest element and clips to
\* the array instead of raising
ClippedDataIndex(self, idx_lai_kaplan, is_slice_idx) ==
    LET idx_data_float == RDiv(RSub(idx_lai_kaplan, self.lai_kaplan_idx_min),
                               self.lai_kaplan_stride)
        max_idx == IF is_slice_idx THEN Len(self.data) ELSE Len(self.data) - 1
        floored == idx_data_float[1] \div idx_data_float[2]
    IN  IF floored < 0 THEN 0 ELSE IF floored > max_idx THEN max_idx ELSE floored

\* LaiKaplanArray.to_data_index (idx_lai_kaplan is not None)
to_data_index(self, idx_lai_kaplan, is_slice_idx) ==
    IF RLess(idx_lai_kaplan, self.lai_kaplan_idx_min) THEN IndexError
    ELSE LET idx_data_float == RDiv(RSub(idx_lai_kaplan, self.lai_kaplan_idx_min),
                                    self.lai_kaplan_stride)
             max_idx == IF is_slice_idx THEN Len(self.data) ELSE Len(self.data) - 1
         IN  IF ~RIsInt(idx_data_float) THEN IndexError
             ELSE IF idx_data_float[1] > max_idx THEN IndexError
             ELSE idx_data_float[1]

\* LaiKaplanArray.to_data_step (step_lai_kaplan is not None)
to_data_step(self, step_lai_kaplan) ==
    LET step_data_float == RDiv(step_lai_kaplan, self.lai_kaplan_stride)
    IN  IF ~RIsInt(step_data_float) THEN IndexError ELSE step_data_float[1]

\* the numpy positions start:stop:step selects in an array of the given size
\* (start, stop >= 0, step > 0), as model positions (numpy index + 1)
RECURSIVE SlicePositions(_, _, _, _)
SlicePositions(start, stop, step, size) ==
    IF start >= stop \/ start >= size THEN <<>>
    ELSE <<start + 1>> \o SlicePositions(start + step, stop, step, size)

\* the positions of the data slice a:b:s, <<IndexError>> when a part did not
\* translate
SliceOf(a, b, s, size) ==
    IF a = IndexError \/ b = IndexError \/ s = IndexError THEN <<IndexError>>
    ELSE SlicePositions(a, b, s, size)

\* the data slice a Lai-Kaplan slice start:stop:step translates to
\* (None for an omitted part)
DataSlice(self, start, stop, step) ==
    SliceOf(IF start = None THEN 0 ELSE to_data_index(self, start, TRUE),
            IF stop = None THEN Len(self.data) ELSE to_data_index(self, stop, TRUE),
            IF step = None THEN 1 ELSE to_data_step(self, step),
            Len(self.data))

\* data[pos]
Take(data, pos) == Strict([k \in 1..Len(pos) |-> data[pos[k]]])

\* data with data[pos] = vals; vals has one value per position
Put(data, pos, vals) ==
    Strict([p \in 1..Len(data) |->
        IF \E k \in 1..Len(pos) : pos[k] = p
        THEN vals[CHOOSE k \in 1..Len(pos) : pos[k] = p]
        ELSE data[p]])

\* LaiKaplanArray.__getitem__ with a scalar index that translates
GetItem(self, idx_lai_kaplan) == self.data[to_data_index(self, idx_lai_kaplan, FALSE) + 1]

\* LaiKaplanArray.__getitem__ with a slice that translates
GetSlice(self, start, stop, step) == Take(self.data, DataSlice(self, start, stop, step))

\* LaiKaplanArray.__setitem__ with a scalar index that translates
SetItem(self, idx_lai_kaplan, val) ==
    [self EXCEPT !.data[to_data_index(self, idx_lai_kaplan, FALSE) + 1] = val]

\* LaiKaplanArray.__setitem__ with a slice that translates
SetSlice(self, start, stop, step, vals) ==
    [self EXCEPT !.data = Put(self.data, DataSlice(self, start, stop, step), vals)]

(***************************************************************************)
(* LaiKaplanF: the Hermite patch on [x_i, x_i + delta]                     *)
(***************************************************************************)
LaiKaplanF(x_i, delta, s_i, s_i_plus_half, m_i, m_i_plus_half) ==
    [x_i |-> x_i, delta |-> delta, s_i |-> s_i, s_i_plus_half |-> s_i_plus_half,
     m_i |-> m_i, m_i_plus_half |-> m_i_plus_half]

\* LaiKaplanF.calculate_u: the value of the patch at u = (x - x_i) / delta
calculate_u(self, u) ==
    RAdd(RAdd(RMul(self.s_i, PolyCall(HERMITE_CUBICS(0, 0), u)),
              RMul(RMul(self.delta, self.m_i), PolyCall(HERMITE_CUBICS(1, 0), u))),
         RAdd(RMul(self.s_i_plus_half, PolyCall(HERMITE_CUBICS(0, 1), u)),
              RMul(RMul(self.delta, self.m_i_plus_half), PolyCall(HERMITE_CUBICS(1, 1), u))))

\* the domain test of the check_domain branches
OutsideDomain(self, x) == RLess(x, self.x_i) \/ RLess(RAdd(self.x_i, self.delta), x)

\* LaiKaplanF.calculate_integral_indefinite_unitless, after its domain check
calculate_integral_indefinite_unitless(self, x) ==
    LET u == RDiv(RSub(x, self.x_i), self.delta)
    IN  RMul(self.delta,
             RAdd(RAdd(RMul(self.s_i, PolyCall(HERMITE_QUARTICS(0, 0), u)),
                       RMul(RMul(self.delta, self.m_i), PolyCall(HERMITE_QUARTICS(1, 0), u))),
                  RAdd(RMul(self.s_i_plus_half, PolyCall(HERMITE_QUARTICS(0, 1), u)),
                       RMul(RMul(self.delta, self.m_i_plus_half),
                            PolyCall(HERMITE_QUARTICS(1, 1), u)))))

\* a definite integral that checks the domain only
RaisesOutsideDomainOnly(self, x_lower, x_upper, check_domain) ==
    check_domain /\ (OutsideDomain(self, x_upper) \/ OutsideDomain(self, x_lower))

\* whether LaiKaplanF.calculate_integral_definite_unitless raises ValueError
IntegralDefiniteRaises(self, x_lower, x_upper, check_domain) ==
    \/ RLeq(x_upper, x_lower)
    \/ check_domain /\ (OutsideDomain(self, x_upper) \/ OutsideDomain(self, x_lower))

\* LaiKaplanF.calculate_integral_definite_unitless when it does not raise
calculate_integral_definite_unitless(self, x_lower, x_upper) ==
    RSub(calculate_integral_indefinite_unitless(self, x_upper),
         calculate_integral_indefinite_unitless(self, x_lower))

\* a pint quantity: a magnitude and its units
Quantity(m, u) == [m |-> m, u |-> u]

\* LaiKaplanF.calculate_integral_indefinite, after its domain check: the
\* patch's x values carry the units x_u, its y values the units y_u
calculate_integral_indefinite(self, x, x_u, y_u) ==
    Quantity(
        RMul(self.delta,
             RAdd(RAdd(RMul(self.s_i,
                            PolyCall(HERMITE_QUARTICS(0, 0), RDiv(RSub(x, self.x_i), self.delta))),
                       RMul(RMul(self.delta, self.m_i),
                            PolyCall(HERMITE_QUARTICS(1, 0), RDiv(RSub(x, self.x_i), self.delta)))),
                  RAdd(RMul(self.s_i_plus_half,
                            PolyCall(HERMITE_QUARTICS(0, 1), RDiv(RSub(x, self.x_i), self.delta))),
                       RMul(RMul(self.delta, self.m_i_plus_half),
                            PolyCall(HERMITE_QUARTICS(1, 1), RDiv(RSub(x, self.x_i), self.delta)))))),
        <<x_u, y_u>>)

(***************************************************************************)
(* grouping.py                                                             *)
(***************************************************************************)
\* np.isin(v, arr)
IsIn(v, arr) == \E k \in 1..Len(arr) : arr[k] = v

\* np.where(mask)[0] from position k on, as positions (numpy index + 1)
RECURSIVE WhereFrom(_, _)
WhereFrom(mask, k) ==
    IF k > Len(mask) THEN <<>>
    ELSE (IF mask[k] THEN <<k>> ELSE <<>>) \o WhereFrom(mask, k + 1)
NpWhere(mask) == WhereFrom(mask, 1)

\* s - 1, element-wise
MinusOne(s) == Strict([k \in 1..Len(s) |-> s[k] - 1])

\* a get_group_boundary_indexes without lines 85-91: absent bounds go unnoticed
BoundsNeverChecked(x_bounds, group_bounds) == FALSE

\* get_group_boundary_indexes raises NonIntersectingBoundsError
NonIntersectingBounds(x_bounds, group_bounds) ==
    \E k \in 1..Len(group_bounds) : ~IsIn(group_bounds[k], x_bounds)

\* a get_group_boundary_indexes that takes every boundary of x_bounds
EveryBoundaryIndex(x_bounds, group_bounds) == Strict([k \in 1..Len(x_bounds) |-> k - 1])

\* get_group_boundary_indexes when it does not raise: the numpy indexes
\* np.where(np.isin(xb_m, gb_m))[0]
get_group_boundary_indexes(x_bounds, group_bounds) ==
    MinusOne(NpWhere(Strict([k \in 1..Len(x_bounds) |-> IsIn(x_bounds[k], group_bounds)])))

\* np.diff
NpDiffInt(s) == Strict([k \in 1..(IF Len(s) > 0 THEN Len(s) - 1 ELSE 0) |-> s[k + 1] - s[k]])
NpDiff(s) == Strict([k \in 1..(IF Len(s) > 0 THEN Len(s) - 1 ELSE 0) |-> RSub(s[k + 1], s[k])])

\* np.cumsum
RECURSIVE CumSumFrom(_, _, _)
CumSumFrom(s, k, acc) ==
    IF k > Len(s) THEN <<>>
    ELSE <<RAdd(acc, s[k])>> \o CumSumFrom(s, k + 1, RAdd(acc, s[k]))
NpCumSum(s) == CumSumFrom(s, 1, Zero)

\* get_number_elements_per_group when the bounds intersect
get_number_elements_per_group(x_bounds, group_bounds) ==
    NpDiffInt(get_group_boundary_indexes(x_bounds, group_bounds))

\* a get_group_indexes that puts every fine interval into the first group
AllInFirstGroup(x_bounds, group_bounds) == Strict([p \in 1..(Len(x_bounds) - 1) |-> 0])

\* get_group_indexes when the bounds intersect: res[start:stop] = i for the
\* i-th pair of consecutive boundaries, a later pair overwriting an earlier one
get_group_indexes(x_bounds, group_bounds) ==
    LET gb == get_group_boundary_indexes(x_bounds, group_bounds)
        Owners(j) == {i \in 1..(Len(gb) - 1) : gb[i] <= j /\ j < gb[i + 1]}
    IN  Strict([p \in 1..(Len(x_bounds) - 1) |->
            IF Owners(p - 1) = {} THEN -1
            ELSE (CHOOSE i \in Owners(p - 1) : \A i2 \in Owners(p - 1) : i2 <= i) - 1])

\* the boundary indexes minus one that are >= 0 (grouping.py lines 190-192)
NonNegativeOf(s) == Take(s, NpWhere(Strict([k \in 1..Len(s) |-> s[k] >= 0])))
CumulativeGroupIdxs(x_bounds, group_bounds) ==
    NonNegativeOf(MinusOne(get_group_boundary_indexes(x_bounds, group_bounds)))

\* np.hstack([res[0], np.diff(res)]) raises IndexError on an empty res
GroupSumsRaises(x_bounds, group_bounds) ==
    CumulativeGroupIdxs(x_bounds, group_bounds) = <<>>

\* get_group_sums when the bounds intersect and res is not empty
get_group_sums(x_bounds, vals, group_bounds) ==
    LET sum_group_idxs == CumulativeGroupIdxs(x_bounds, group_bounds)
        cumulative_sum == NpCumSum(vals)
        res == Strict([k \in 1..Len(sum_group_idxs) |-> cumulative_sum[sum_group_idxs[k] + 1]])
    IN  <<res[1]>> \o NpDiff(res)

\* get_group_integrals when the bounds intersect and the result is not empty
get_group_integrals(integrand_x_bounds, integrand_y, group_bounds) ==
    LET idxs == CumulativeGroupIdxs(integrand_x_bounds, group_bounds)
        x_steps == NpDiff(integrand_x_bounds)
        integrals == Strict([k \in 1..Len(integrand_y) |-> RMul(x_steps[k], integrand_y[k])])
        cumulative_integrals == NpCumSum(integrals)
        cumulative_integrals_groups ==
            Strict([k \in 1..Len(idxs) |-> cumulative_integrals[idxs[k] + 1]])
    IN  <<cumulative_integrals_groups[1]>> \o NpDiff(cumulative_integrals_groups)

\* the element-wise quotient of get_group_averages raises when the two
\* arrays do not have the same length (numpy cannot broadcast them)
GroupAveragesShapeError(integrand_x_bounds, group_bounds) ==
    LET n == Len(CumulativeGroupIdxs(integrand_x_bounds, group_bounds))
        m == Len(group_bounds) - 1
    IN  n # m /\ n # 1 /\ m # 1

\* a / b of two floats in numpy: a division by zero raises nothing, it gives
\* nan (written <<0, 0>>) for 0 / 0 and a signed infinity (<<1, 0>>, <<-1, 0>>)
NpTrueDivide(a, b) ==
    IF b[1] # 0 THEN RDiv(a, b)
    ELSE <<RSign(a), 0>>

\* p / q element-wise with numpy's broadcasting of a length-one array
DivideBroadcast(p, q) ==
    Strict([k \in 1..(IF Len(p) = 1 THEN Len(q) ELSE Len(p)) |->
        NpTrueDivide(p[IF Len(p) = 1 THEN 1 ELSE k], q[IF Len(q) = 1 THEN 1 ELSE k])])

\* get_group_averages when nothing raises
get_group_averages(integrand_x_bounds, integrand_y, group_bounds) ==
    DivideBroadcast(get_group_integrals(integrand_x_bounds, integrand_y, group_bounds),
                    NpDiff(group_bounds))

(***************************************************************************)
(* numpy / scipy numerics used by the policies                             *)
(***************************************************************************)
\* np.linalg.solve(A, b) for a non-singular A with non-zero pivots: Gaussian
\* elimination; A is a sequence of rows
\* the system left after the first unknown is eliminated
ReducedMatrix(A) ==
    Strict([i \in 1..(Len(A) - 1) |-> Strict([j \in 1..(Len(A) - 1) |->
        RSub(A[i + 1][j + 1], RMul(RDiv(A[i + 1][1], A[1][1]), A[1][j + 1]))])])
ReducedRhs(A, b) ==
    Strict([i \in 1..(Len(b) - 1) |-> RSub(b[i + 1], RMul(RDiv(A[i + 1][1], A[1][1]), b[1]))])

\* the first unknown from the others, x2
BackSubstitute(A, b, x2) ==
    Strict([k \in 1..(Len(x2) + 1) |->
        IF k > 1 THEN x2[k - 1]
        ELSE RDiv(RSub(b[1], RSum(Strict([j \in 1..Len(x2) |-> RMul(A[1][j + 1], x2[j])]))),
                  A[1][1])])

RECURSIVE linalg_solve(_, _)
linalg_solve(A, b) ==
    IF Len(b) = 1 THEN <<RDiv(b[1], A[1][1])>>
    ELSE BackSubstitute(A, b, linalg_solve(ReducedMatrix(A), ReducedRhs(A, b)))

\* np.interp(x, xp, fp) for increasing xp
NpInterp(x, xp, fp) ==
    IF RLeq(x, xp[1]) THEN fp[1]
    ELSE IF RLeq(xp[Len(xp)], x) THEN fp[Len(fp)]
    ELSE LET k == CHOOSE k \in 1..(Len(xp) - 1) : RLeq(xp[k], x) /\ RLess(x, xp[k + 1])
         IN  RAdd(fp[k], RMul(RSub(x, xp[k]),
                              RDiv(RSub(fp[k + 1], fp[k]), RSub(xp[k + 1], xp[k]))))

\* scipy.interpolate.interp1d(kind="cubic") needs at least four points
MinCubicPoints == 4

\* 6 * (fp[i-1] - 2 fp[i] + fp[i+1]) / h^2 at the inner knots i = 2..m-1
SplineRhs(fp, h) ==
    Strict([k \in 1..(Len(fp) - 2) |->
        RDiv(RMul(R(6), RAdd(RSub(fp[k], RMul(R(2), fp[k + 1])), fp[k + 2])), RMul(h, h))])

\* the (1, 4, 1) system of the inner knots 3..m-2
SplineMatrix(k) ==
    Strict([i \in 1..k |-> Strict([j \in 1..k |->
        IF i = j THEN R(4) ELSE IF j = i + 1 \/ j = i - 1 THEN R(1) ELSE Zero])])
SplineInnerRhs(r, k) ==
    Strict([i \in 1..k |->
        RSub(RSub(r[i + 1], IF i = 1 THEN RDiv(r[1], R(6)) ELSE Zero),
             IF i = k THEN RDiv(r[Len(r)], R(6)) ELSE Zero)])

\* the second derivatives at the knots 2..m-1
SplineMid(r) ==
    <<RDiv(r[1], R(6))>>
    \o (IF Len(r) = 2 THEN <<>>
        ELSE linalg_solve(SplineMatrix(Len(r) - 2), SplineInnerRhs(r, Len(r) - 2)))
    \o <<RDiv(r[Len(r)], R(6))>>

\* not-a-knot: the second derivative is linear across knots 1..3 and m-2..m
SplineEnds(mid) ==
    <<RSub(RMul(R(2), mid[1]), mid[2])>> \o mid
    \o <<RSub(RMul(R(2), mid[Len(mid)]), mid[Len(mid) - 1])>>

\* second derivatives at the knots of the not-a-knot cubic spline through
\* (xp, fp), xp uniformly spaced, Len(xp) >= MinCubicPoints
SplineSecondDerivatives(xp, fp) == SplineEnds(SplineMid(SplineRhs(fp, RSub(xp[2], xp[1]))))

\* the spline piece holding x, the end pieces outside the knots
SplinePieceIndex(xp, x) ==
    IF RLeq(x, xp[1]) THEN 1
    ELSE IF RLeq(xp[Len(xp)], x) THEN Len(xp) - 1
    ELSE CHOOSE k \in 1..(Len(xp) - 1) : RLeq(xp[k], x) /\ RLess(x, xp[k + 1])

RCube(v) == RMul(v, RMul(v, v))

\* piece i of the spline with second derivatives M, at x
SplinePiece(xp, fp, M, i, h, x) ==
    RAdd(RAdd(RDiv(RMul(M[i], RCube(RSub(xp[i + 1], x))), RMul(R(6), h)),
              RDiv(RMul(M[i + 1], RCube(RSub(x, xp[i]))), RMul(R(6), h))),
         RAdd(RMul(RSub(RDiv(fp[i], h), RDiv(RMul(M[i], h), R(6))), RSub(xp[i + 1], x)),
              RMul(RSub(RDiv(fp[i + 1], h), RDiv(RMul(M[i + 1], h), R(6))), RSub(x, xp[i]))))

\* the interp1d(kind="cubic", fill_value="extrapolate") interpolant at x
CubicInterp(xp, fp, x) ==
    SplinePiece(xp, fp, SplineSecondDerivatives(xp, fp), SplinePieceIndex(xp, x),
                RSub(xp[2], xp[1]), x)

(***************************************************************************)
(* Boundary extrapolation and wall-value policies                          *)
(***************************************************************************)
CONSTANT_HANDLING == "CONSTANT"
CUBIC_EXTRAPOLATION == "CUBIC_EXTRAPOLATION"

\* extrapolate_y_interval_values raises ValueError (interp1d on too few points)
ExtrapolateRaises(y_in, left, right) ==
    (left = CUBIC_EXTRAPOLATION \/ right = CUBIC_EXTRAPOLATION) /\ Len(y_in) < MinCubicPoints

\* extrapolate_y_interval_values when it does not raise
extrapolate_y_interval_values(x_in, y_in, x_out, left, right) ==
    << IF left = CONSTANT_HANDLING THEN y_in[1] ELSE CubicInterp(x_in, y_in, x_out[1]),
       IF right = CUBIC_EXTRAPOLATION THEN CubicInterp(x_in, y_in, x_out[2])
       ELSE y_in[Len(y_in)] >>

get_wall_control_points_y_linear(intervals_x, intervals_y, control_points_wall_x) ==
    Strict([k \in 1..Len(control_points_wall_x) |->
        NpInterp(control_points_wall_x[k], intervals_x, intervals_y)])

\* np.argmax(np.abs(np.diff(intervals_y)) > 0): the first index of a change,
\* 0 when there is none
FirstChange(intervals_y) ==
    LET d == NpDiff(intervals_y)
        changes == {k \in 1..Len(d) : RLess(Zero, RAbs(d[k]))}
    IN  IF changes = {} THEN 0
        ELSE (CHOOSE k \in changes : \A k2 \in changes : k <= k2) - 1

get_wall_control_points_y_linear_with_flat_override_on_left(intervals_x, intervals_y, control_points_wall_x) ==
    LET control_points_wall_y ==
            get_wall_control_points_y_linear(intervals_x, intervals_y, control_points_wall_x)
        first_change == FirstChange(intervals_y)
    IN  IF first_change > 0
        THEN [control_points_wall_y EXCEPT ![first_change + 1] = intervals_y[1]]
        ELSE control_points_wall_y

\* get_wall_control_points_y_cubic raises ValueError (interp1d on too few points)
WallCubicRaises(intervals_x) == Len(intervals_x) < MinCubicPoints

get_wall_control_points_y_cubic(intervals_x, intervals_y, control_points_wall_x) ==
    Strict([k \in 1..Len(control_points_wall_x) |->
        CubicInterp(intervals_x, intervals_y, control_points_wall_x[k])])

WALL_LINEAR == "linear"
WALL_FLAT == "linear_with_flat_override_on_left"
WALL_CUBIC == "cubic"

\* self.get_wall_control_points_y_from_interval_ys(...)
get_wall_control_points_y_from_interval_ys(policy, intervals_x, intervals_y, control_points_wall_x) ==
    IF policy = WALL_LINEAR
    THEN get_wall_control_points_y_linear(intervals_x, intervals_y, control_points_wall_x)
    ELSE IF policy = WALL_FLAT
    THEN get_wall_control_points_y_linear_with_flat_override_on_left(
             intervals_x, intervals_y, control_points_wall_x)
    ELSE get_wall_control_points_y_cubic(intervals_x, intervals_y, control_points_wall_x)

(***************************************************************************)
(* LaiKaplanInterpolator: the pure parts of __call__                       *)
(***************************************************************************)
\* a value no step reads before it is assigned (np.nan * np.zeros(...))
NaN == <<0, 0>>

\* a call without lines 953-955: the spacing of x_bounds_in is not checked
SpacingNeverChecked(x_bounds_in, rtol_uniform_steps) == FALSE

\* pint.testing.assert_allclose(x_step, x_steps, rtol=rtol_uniform_steps)
\* raises: some |x_step - x_steps[k]| > rtol * |x_steps[k]|
NonUniformSpacing(x_bounds_in, rtol_uniform_steps) ==
    LET x_steps == NpDiff(x_bounds_in)
        x_step == x_steps[1]
    IN  \E k \in 1..Len(x_steps) :
            RLess(RMul(rtol_uniform_steps, RAbs(x_steps[k])), RAbs(RSub(x_step, x_steps[k])))

\* intervals_internal_x = (x_bounds_in[1:] + x_bounds_in[:-1]) / 2.0
IntervalsInternalX(x_bounds_in) ==
    Strict([k \in 1..(Len(x_bounds_in) - 1) |-> RDiv(RAdd(x_bounds_in[k + 1], x_bounds_in[k]), R(2))])

\* intervals_x: the interval mid-points with one more on either side
IntervalsX(x_bounds_in) ==
    LET x_step == RSub(x_bounds_in[2], x_bounds_in[1])
        internal == IntervalsInternalX(x_bounds_in)
    IN  <<RSub(internal[1], x_step)>> \o internal \o <<RAdd(internal[Len(internal)], x_step)>>

\* control_points_x: walls at the odd numpy positions, intervals at the even
ControlPointsX(x_bounds_in) ==
    LET intervals_x == IntervalsX(x_bounds_in)
    IN  LaiKaplanArray(Half, Half,
            Strict([p \in 1..(2 * Len(x_bounds_in) + 1) |->
                IF p % 2 = 0 THEN x_bounds_in[p \div 2] ELSE intervals_x[(p + 1) \div 2]]))

\* the coefficients a_d of the unknowns (lai_kaplan.py lines 1095-1106)
CoefficientsA ==
    LET Q(i, j) == PolyCall(HERMITE_QUARTICS(i, j), R(1))
    IN  << RNeg(RDiv(Q(1, 0), R(2))),
           RSub(RAdd(RAdd(Q(0, 0), Q(0, 1)), RDiv(Q(1, 0), R(2))), RDiv(Q(1, 1), R(2))),
           RDiv(Q(1, 1), R(2)) >>

\* the coefficients beta_d of the wall values (lai_kaplan.py lines 1126-1131)
CoefficientsBeta ==
    LET Q(i, j) == PolyCall(HERMITE_QUARTICS(i, j), R(1))
    IN  << RSub(RSub(Q(0, 0), RDiv(Q(1, 0), R(2))), RDiv(Q(1, 1), R(2))),
           RAdd(RAdd(Q(0, 1), RDiv(Q(1, 0), R(2))), RDiv(Q(1, 1), R(2))) >>

\* A_mat: a[1] below the diagonal, a[2] on it, a[3] above it
AMat(n_lai_kaplan) ==
    LET a == LaiKaplanArray(R(1), R(1), CoefficientsA)
    IN  Strict([r \in 1..n_lai_kaplan |-> Strict([c \in 1..n_lai_kaplan |->
            IF r = c THEN GetItem(a, R(2))
            ELSE IF c = r - 1 THEN GetItem(a, R(1))
            ELSE IF c = r + 1 THEN GetItem(a, R(3))
            ELSE Zero])])

\* the right-hand side b, assigned in the order of the code: b[1], then
\* b[2:n], then b[n]
RightHandSide(n_lai_kaplan, x_step, target, control_points_wall_y, external_control_points_y_d) ==
    LET delta == RDiv(x_step, R(2))
        a == LaiKaplanArray(R(1), R(1), CoefficientsA)
        beta == LaiKaplanArray(R(1), R(1), CoefficientsBeta)
        A == LaiKaplanArray(R(1), R(1), Strict([k \in 1..Len(target) |-> RMul(x_step, target[k])]))
        b0 == LaiKaplanArray(R(1), R(1), Strict([k \in 1..Len(target) |-> Zero]))
        Row(j) == RSub(RSub(RDiv(GetItem(A, R(j)), delta),
                            RMul(GetItem(beta, R(1)), GetItem(control_points_wall_y, R(j)))),
                       RMul(GetItem(beta, R(2)), GetItem(control_points_wall_y, R(j + 1))))
        b1 == SetItem(b0, R(1),
                      RSub(Row(1), RMul(GetItem(a, R(1)), external_control_points_y_d[1])))
        A_mid == GetSlice(A, R(2), R(n_lai_kaplan), None)
        w_mid == GetSlice(control_points_wall_y, R(2), R(n_lai_kaplan), None)
        w_mid_plus_one == GetSlice(control_points_wall_y, R(3), R(n_lai_kaplan + 1), None)
        b2 == SetSlice(b1, R(2), R(n_lai_kaplan), None,
                  Strict([k \in 1..Len(A_mid) |->
                      RSub(RSub(RDiv(A_mid[k], delta), RMul(GetItem(beta, R(1)), w_mid[k])),
                           RMul(GetItem(beta, R(2)), w_mid_plus_one[k]))]))
        b3 == SetItem(b2, R(n_lai_kaplan),
                      RSub(Row(n_lai_kaplan),
                           RMul(GetItem(a, R(3)), external_control_points_y_d[2])))
    IN  b3.data

\* LaiKaplanInterpolator.solve_control_points_y
solve_control_points_y(n_lai_kaplan, x_step, target, control_points_x, control_points_wall_y, external_control_points_y_d) ==
    LET b == RightHandSide(n_lai_kaplan, x_step, target, control_points_wall_y,
                           external_control_points_y_d)
        control_points_interval_y_d == linalg_solve(AMat(n_lai_kaplan), b)
        y0 == LaiKaplanArray(Half, Half, Strict([p \in 1..Len(control_points_x.data) |-> NaN]))
        y1 == SetItem(y0, Half, external_control_points_y_d[1])
        y2 == SetItem(y1, RAdd(R(n_lai_kaplan), <<3, 2>>), external_control_points_y_d[2])
        y3 == SetSlice(y2, R(1), R(n_lai_kaplan + 2), R(1),
                       GetSlice(control_points_wall_y, None, None, None))
        y4 == SetSlice(y3, <<3, 2>>, RAdd(R(n_lai_kaplan), <<3, 2>>), R(1),
                       control_points_interval_y_d)
    IN  y4

\* gradients from one-sided differences, (y[i + 1/2] - y[i]) / delta
ForwardGradients(control_points_y, n_lai_kaplan, delta) ==
    LaiKaplanArray(R(1), Half,
        Strict([k \in 1..(2 * n_lai_kaplan + 1) |->
            RDiv(RSub(control_points_y.data[k + 2], control_points_y.data[k + 1]), delta)]))

\* gradients_at_control_points (lai_kaplan.py lines 1219-1226)
GradientsAtControlPoints(control_points_y, n_lai_kaplan, delta) ==
    LET upper == GetSlice(control_points_y, <<3, 2>>, R(n_lai_kaplan + 2), None)
        lower == GetSlice(control_points_y, Half, R(n_lai_kaplan + 1), None)
    IN  LaiKaplanArray(R(1), Half,
            Strict([k \in 1..(2 * n_lai_kaplan + 1) |->
                RDiv(RSub(upper[k], lower[k]), RMul(R(2), delta))]))

(***************************************************************************)
(* The minimum-value applier (RymesMeyersInterpolator.iterate_to_solution).*)
(* Its code is not part of the sources at hand; it is modelled by its      *)
(* contract: a solution has one value per local output interval, no value  *)
(* below min_val, and averages to the interval's input mean.  The model    *)
(* draws the solution from the values min_val, y_in and 2 * y_in - min_val.*)
(***************************************************************************)
\* the average of piecewise-constant vals over x_bounds
WeightedAverage(x_bounds, vals) ==
    RDiv(RSum(Strict([k \in 1..Len(vals) |-> RMul(RSub(x_bounds[k + 1], x_bounds[k]), vals[k])])),
         RSub(x_bounds[Len(x_bounds)], x_bounds[1]))

iterate_to_solution(starting_values, x_bounds_out, x_bounds_in, y_in, left_bound_val, right_bound_val, min_val) ==
    LET candidates == {min_val, y_in[1], RSub(RMul(R(2), y_in[1]), min_val)}
    IN  {r \in [1..Len(starting_values) -> candidates] :
            /\ \A k \in 1..Len(r) : RLeq(min_val, r[k])
            /\ WeightedAverage(x_bounds_out, r) = y_in[1]}

(***************************************************************************)
(* State: one call of LaiKaplanInterpolator.__call__                       *)
(***************************************************************************)
VARIABLES
    self,                        \* the interpolator's fields
    args,                        \* the caller's x_bounds_in, y_in (with its dtype), x_bounds_out
    pc,                          \* the statement of __call__ that runs next
    outcome,                     \* "running", "returned" or the exception raised
    trace,                       \* the steps of __call__ that have run, in order
    warnings,                    \* the warnings emitted
    y_in,                        \* local y_in (floating point after the dtype step)
    x_bounds_out,                \* local x_bounds_out
    x_step, delta,
    control_points_x,
    external_intervals_y_d,
    control_points_wall_y,
    control_points_y,
    gradients_at_control_points,
    out_index,                   \* loop variable of create_y_out_from_control_points
    lai_kaplan_interval_idx,
    x_i,
    lai_kaplan_f,                \* the current patch, None while unbound
    y_out,                       \* y_out_m while it is filled, then y_out
    y_out_evaluated,             \* y_out as create_y_out_from_control_points returned it
    below_min_in_group,
    y_out_group_index,
    iterh,                       \* the groups lower_bound_adjustment still has to update
    applier_calls,               \* the calls of iterate_to_solution made, in order
    earlier_result               \* how the earlier call on self ended, None if there was none

vars == <<self, args, pc, outcome, trace, warnings, y_in, x_bounds_out, x_step, delta,
          control_points_x, external_intervals_y_d, control_points_wall_y, control_points_y,
          gradients_at_control_points, out_index, lai_kaplan_interval_idx, x_i, lai_kaplan_f,
          y_out, y_out_evaluated, below_min_in_group, y_out_group_index, iterh, applier_calls,
          earlier_result>>

solve_vars == <<x_step, delta, control_points_x, external_intervals_y_d,
                control_points_wall_y, control_points_y>>
eval_vars == <<gradients_at_control_points, out_index, lai_kaplan_interval_idx, x_i,
               lai_kaplan_f, y_out, y_out_evaluated>>
lba_vars == <<below_min_in_group, y_out_group_index, iterh, applier_calls>>

\* the exceptions a call can end with
ErrUnsorted == "AssertionError: x_bounds_out must be sorted for this to work"
ErrNonUniform == "AssertionError: Non-uniform spacing in x_bounds_in"
ErrInfeasibleMin == "AssertionError: There are values in y_in that are less than the minimum value"
ErrValue == "ValueError"
ErrIndex == "IndexError"
ErrUnbound == "UnboundLocalError"
ErrNonIntersecting == "NonIntersectingBoundsError"

Raise(err) == /\ outcome' = err
              /\ pc' = "done"

Ran(step) == trace' = Append(trace, step)

n_lai_kaplan == Len(y_in)

(***************************************************************************)
(* Inputs of a call                                                        *)
(***************************************************************************)
\* the values an input mean takes
YVals == {0, 2}

\* configured values of min_val (None: no minimum), atol and rtol
MinVals == {None, R(0), R(1), <<-1, 8>>}
AtolVals == {Zero, <<1, 4>>}
RtolVals == {Zero}

\* rtol_uniform_steps: float = 1e-7
DefaultRtolUniformSteps == <<1, 10000000>>

\* N + 1 input boundaries 0, 2, 4, ...; perturbed: the last step is 3
XBoundsIn(n, perturbed) ==
    Strict([k \in 1..(n + 1) |-> R(2 * (k - 1) + (IF perturbed /\ k = n + 1 THEN 1 ELSE 0))])

\* every boundary and every mid-point of the input intervals 0, 2, ..., 2n
FineGrid(n) == Strict([k \in 1..(2 * n + 1) |-> R(k - 1)])

\* s without its k-th element
DropAt(s, k) == Strict([i \in 1..(Len(s) - 1) |-> IF i < k THEN s[i] ELSE s[i + 1]])

\* the output boundaries tried for n input intervals
XBoundsOutSet(n) ==
    LET fine == FineGrid(n)
    IN  {fine, XBoundsIn(n, FALSE)}
        \cup {DropAt(fine, k) : k \in 1..Len(fine)}
        \cup { <<R(0), Half, R(1), <<3, 2>>>> \o Slice(fine, 3, Len(fine)),   \* finer first interval
               Slice(fine, 1, 3),                                             \* first interval only
               <<R(-1)>> \o fine \o <<R(2 * n + 1)>>,                         \* super-set
               fine \o <<R(2 * n + 1)>>,                                      \* past the right end
               <<R(-11)>> \o fine,                                            \* far left start
               <<R(1), R(0)>> \o Slice(fine, 3, Len(fine)),                   \* unsorted
               <<R(0)>> \o fine }                                             \* repeated boundary

\* an array of integer dtype: each element is the one-tuple of its value
IntSeq(s) == Strict([k \in 1..Len(s) |-> <<s[k]>>])

\* y_in.astype(np.float64)
AsFloat(s) == Strict([k \in 1..Len(s) |-> R(s[k][1])])

ArgsSet ==
    UNION { { [x_bounds_in |-> XBoundsIn(n, perturbed),
               y_in |-> IF dtype = "int" THEN IntSeq(y) ELSE RSeq(y),
               y_dtype |-> dtype,
               x_bounds_out |-> xo] :
                 y \in [1..n -> YVals], dtype \in {"int", "float"},
                 perturbed \in (IF n = 1 THEN {FALSE} ELSE BOOLEAN),
                 xo \in XBoundsOutSet(n) } : n \in 1..MaxN }

SelfSet ==
    { [extrapolate_left |-> l, extrapolate_right |-> r,
       get_wall_control_points_y_from_interval_ys |-> w,
       min_val |-> m, atol |-> a, rtol |-> rt,
       rtol_uniform_steps |-> DefaultRtolUniformSteps] :
         l \in {CONSTANT_HANDLING, CUBIC_EXTRAPOLATION},
         r \in {CONSTANT_HANDLING, CUBIC_EXTRAPOLATION},
         w \in {WALL_LINEAR, WALL_FLAT, WALL_CUBIC},
         m \in MinVals, a \in AtolVals, rt \in RtolVals }

\* constant extrapolation on both sides and linear wall values: the policies
\* that accept any number of input intervals
SimplestPolicies(s) ==
    /\ s.extrapolate_left = CONSTANT_HANDLING
    /\ s.extrapolate_right = CONSTANT_HANDLING
    /\ s.get_wall_control_points_y_from_interval_ys = WALL_LINEAR

\* the calls explored: atol only matters with a minimum; integer y_in and
\* non-uniform x_bounds_in are tried with the simplest policies; more than
\* three intervals are tried with a constant y_in, which keeps the exact
\* arithmetic within the range of the integers
CallTried(s, a) ==
    /\ s.min_val = None => s.atol = Zero
    /\ Len(a.y_in) > 3 => \A k \in 1..Len(a.y_in) : a.y_in[k] = a.y_in[1]
    /\ a.y_dtype = "int" => SimplestPolicies(s) /\ s.atol = Zero
    /\ a.x_bounds_in # XBoundsIn(Len(a.y_in), FALSE) => SimplestPolicies(s) /\ s.atol = Zero

Init ==
    /\ self \in SelfSet
    /\ args \in ArgsSet
    /\ CallTried(self, args)
    /\ pc = "dtype"
    /\ outcome = "running"
    /\ trace = <<>>
    /\ warnings = <<>>
    /\ y_in = args.y_in
    /\ x_bounds_out = args.x_bounds_out
    /\ x_step = None /\ delta = None
    /\ control_points_x = None
    /\ external_intervals_y_d = None
    /\ control_points_wall_y = None
    /\ control_points_y = None
    /\ gradients_at_control_points = None
    /\ out_index = 0
    /\ lai_kaplan_interval_idx = None
    /\ x_i = None
    /\ lai_kaplan_f = None
    /\ y_out = None
    /\ y_out_evaluated = None
    /\ below_min_in_group = None
    /\ y_out_group_index = None
    /\ iterh = None
    /\ applier_calls = <<>>
    /\ earlier_result = None

(***************************************************************************)
(* The steps of LaiKaplanInterpolator.__call__                             *)
(***************************************************************************)
\* y_in *= 1.0 in the caller's array
ConvertedInPlace(a) ==
    IF a.y_dtype = "int" THEN [a EXCEPT !.y_in = AsFloat(a.y_in), !.y_dtype = "float"] ELSE a

\* line 943: y_in = y_in * 1.0 binds the local name to a new array and leaves
\* the array of the caller as it is
CallerArgsAfterConversion(a) == a

\* a conversion of an integer y_in that emits no warning
ConvertDtypeSilently ==
    /\ pc = "dtype"
    /\ y_in' = (IF args.y_dtype = "int" THEN AsFloat(y_in) ELSE y_in)
    /\ pc' = "sorted"
    /\ Ran("dtype")
    /\ UNCHANGED <<earlier_result, self, args, warnings, outcome, x_bounds_out, solve_vars,
                   eval_vars, lba_vars>>

\* lines 940-943: an integer y_in is converted to floating point, with a warning
ConvertDtype ==
    /\ pc = "dtype"
    /\ IF args.y_dtype = "int"
       THEN /\ warnings' = Append(warnings, "The input will be converted to a floating type.")
            /\ y_in' = AsFloat(y_in)
       ELSE UNCHANGED <<warnings, y_in>>
    /\ args' = CallerArgsAfterConversion(args)
    /\ pc' = "sorted"
    /\ Ran("dtype")
    /\ UNCHANGED <<earlier_result, self, outcome, x_bounds_out, solve_vars, eval_vars, lba_vars>>

\* a call without lines 945-947: the order of x_bounds_out is not checked
OrderNeverChecked(s) == TRUE

\* np.all(x_bounds_out[:-1] <= x_bounds_out[1:])
IsSorted(s) == \A k \in 1..(Len(s) - 1) : RLeq(s[k], s[k + 1])

\* lines 945-949: x_bounds_out must be sorted
CheckSorted ==
    /\ pc = "sorted"
    /\ IF ~IsSorted(x_bounds_out)
       THEN Raise(ErrUnsorted)
       ELSE /\ pc' = "uniform"
            /\ UNCHANGED outcome
    /\ Ran("sorted")
    /\ UNCHANGED <<earlier_result, self, args, warnings, y_in, x_bounds_out, solve_vars, eval_vars, lba_vars>>

\* CheckUniform for a call that would compare y_in with min_val among its input
\* checks, ahead of the policies and the solve
CheckUniformAndMinimum ==
    /\ pc = "uniform"
    /\ IF self.min_val # None /\ \E k \in 1..Len(y_in) : RLess(y_in[k], self.min_val)
       THEN /\ Raise(ErrInfeasibleMin)
            /\ UNCHANGED <<x_step, delta, control_points_x>>
       ELSE IF NonUniformSpacing(args.x_bounds_in, self.rtol_uniform_steps)
       THEN /\ Raise(ErrNonUniform)
            /\ UNCHANGED <<x_step, delta, control_points_x>>
       ELSE /\ x_step' = RSub(args.x_bounds_in[2], args.x_bounds_in[1])
            /\ delta' = RDiv(RSub(args.x_bounds_in[2], args.x_bounds_in[1]), R(2))
            /\ control_points_x' = ControlPointsX(args.x_bounds_in)
            /\ pc' = "extrapolate"
            /\ UNCHANGED outcome
    /\ Ran("uniform")
    /\ UNCHANGED <<earlier_result, self, args, warnings, y_in, x_bounds_out, external_intervals_y_d,
                   control_points_wall_y, control_points_y, eval_vars, lba_vars>>

\* lines 951-990: x_bounds_in must be uniformly spaced; x_step, delta, control_points_x
CheckUniform ==
    /\ pc = "uniform"
    /\ IF NonUniformSpacing(args.x_bounds_in, self.rtol_uniform_steps)
       THEN /\ Raise(ErrNonUniform)
            /\ UNCHANGED <<x_step, delta, control_points_x>>
       ELSE /\ x_step' = RSub(args.x_bounds_in[2], args.x_bounds_in[1])
            /\ delta' = RDiv(RSub(args.x_bounds_in[2], args.x_bounds_in[1]), R(2))
            /\ control_points_x' = ControlPointsX(args.x_bounds_in)
            /\ pc' = "extrapolate"
            /\ UNCHANGED outcome
    /\ Ran("uniform")
    /\ UNCHANGED <<earlier_result, self, args, warnings, y_in, x_bounds_out, external_intervals_y_d,
                   control_points_wall_y, control_points_y, eval_vars, lba_vars>>

\* lines 992-1004: self.extrapolate_y_interval_values
Extrapolate ==
    /\ pc = "extrapolate"
    /\ IF ExtrapolateRaises(y_in, self.extrapolate_left, self.extrapolate_right)
       THEN /\ Raise(ErrValue)
            /\ UNCHANGED external_intervals_y_d
       ELSE /\ external_intervals_y_d' =
                   LET intervals_x == IntervalsX(args.x_bounds_in)
                   IN  extrapolate_y_interval_values(
                           IntervalsInternalX(args.x_bounds_in), y_in,
                           <<intervals_x[1], intervals_x[Len(intervals_x)]>>,
                           self.extrapolate_left, self.extrapolate_right)
            /\ pc' = "walls"
            /\ UNCHANGED outcome
    /\ Ran("extrapolate")
    /\ UNCHANGED <<earlier_result, self, args, warnings, y_in, x_bounds_out, x_step, delta, control_points_x,
                   control_points_wall_y, control_points_y, eval_vars, lba_vars>>

\* the policy of notebooks/1000_interpolate-annual-mean-to-monthly.py: the
\* flat-override policy with one more wall fixed
WALL_STITCH == "get_wall_control_points"

\* fixed_control_point of the notebook: the mean, over the scenarios, of the
\* mean of the overlap interval and the interval after it
fixed_control_point(stitched, overlap) ==
    RDiv(RSum(Strict([sc \in 1..Len(stitched) |->
                 RDiv(RAdd(stitched[sc][overlap], stitched[sc][overlap + 1]), R(2))])),
         R(Len(stitched)))

\* get_wall_control_points of the notebook: every wall at x = stitch_x (the
\* end of the overlap interval) is set to the fixed control point
get_wall_control_points(intervals_x, intervals_y, control_points_wall_x, stitch_x, fixed) ==
    Strict([k \in 1..Len(control_points_wall_x) |->
        IF control_points_wall_x[k] = stitch_x THEN fixed
        ELSE get_wall_control_points_y_linear_with_flat_override_on_left(
                 intervals_x, intervals_y, control_points_wall_x)[k]])

\* lines 1006-1015: self.get_wall_control_points_y_from_interval_ys
WallValues ==
    /\ pc = "walls"
    /\ LET intervals_x == IntervalsX(args.x_bounds_in)
           intervals_y == <<external_intervals_y_d[1]>> \o y_in \o <<external_intervals_y_d[2]>>
       IN  IF self.get_wall_control_points_y_from_interval_ys = WALL_CUBIC
              /\ WallCubicRaises(intervals_x)
           THEN /\ Raise(ErrValue)
                /\ UNCHANGED control_points_wall_y
           ELSE /\ control_points_wall_y' =
                       LaiKaplanArray(R(1), R(1),
                           IF self.get_wall_control_points_y_from_interval_ys = WALL_STITCH
                           THEN get_wall_control_points(
                                    intervals_x, intervals_y, args.x_bounds_in,
                                    args.x_bounds_in[args.overlap + 1],
                                    fixed_control_point(args.stitched, args.overlap))
                           ELSE get_wall_control_points_y_from_interval_ys(
                                    self.get_wall_control_points_y_from_interval_ys,
                                    intervals_x, intervals_y, args.x_bounds_in))
                /\ pc' = "solve"
                /\ UNCHANGED outcome
    /\ Ran("walls")
    /\ UNCHANGED <<earlier_result, self, args, warnings, y_in, x_bounds_out, x_step, delta, control_points_x,
                   external_intervals_y_d, control_points_y, eval_vars, lba_vars>>

\* lines 1017-1024: self.solve_control_points_y
Solve ==
    /\ pc = "solve"
    /\ control_points_y' =
           solve_control_points_y(n_lai_kaplan, x_step, y_in, control_points_x,
                                  control_points_wall_y, external_intervals_y_d)
    /\ pc' = "evaluate"
    /\ Ran("solve")
    /\ UNCHANGED <<earlier_result, self, args, outcome, warnings, y_in, x_bounds_out, x_step, delta,
                   control_points_x, external_intervals_y_d, control_points_wall_y,
                   eval_vars, lba_vars>>

\* lines 1219-1240: the start of create_y_out_from_control_points
StartEvaluation ==
    /\ pc = "evaluate"
    /\ gradients_at_control_points' =
           GradientsAtControlPoints(control_points_y, n_lai_kaplan, delta)
    /\ y_out' = <<>>
    /\ out_index' = 0
    /\ lai_kaplan_interval_idx' = Half
    /\ x_i' = RSub(GetItem(control_points_x, Half), RMul(R(10), delta))
    /\ lai_kaplan_f' = None
    /\ pc' = "eval_loop"
    /\ Ran("evaluate")
    /\ UNCHANGED <<earlier_result, self, args, outcome, warnings, y_in, x_bounds_out, solve_vars,
                   y_out_evaluated, lba_vars>>

\* line 1242 with > in place of >=
StrictlyPastPatchEnd == RLess(RAdd(x_i, delta), x_bounds_out[out_index + 1])

\* line 1242: the output boundary has reached the end of the current patch
CrossesIntoNextPatch == RLeq(RAdd(x_i, delta), x_bounds_out[out_index + 1])

\* the index the loop body uses for this output interval
NextIntervalIdx ==
    IF CrossesIntoNextPatch THEN RAdd(lai_kaplan_interval_idx, Half)
    ELSE lai_kaplan_interval_idx

\* lines 1245-1253 raise IndexError: a control point or gradient the new
\* patch needs lies outside its array
PatchIndexError(idx) ==
    \/ to_data_index(control_points_x, idx, FALSE) = IndexError
    \/ to_data_index(control_points_y, idx, FALSE) = IndexError
    \/ to_data_index(control_points_y, RAdd(idx, Half), FALSE) = IndexError
    \/ to_data_index(gradients_at_control_points, idx, FALSE) = IndexError
    \/ to_data_index(gradients_at_control_points, RAdd(idx, Half), FALSE) = IndexError

\* lines 1246-1253: the patch that starts at control point idx
PatchAt(idx) ==
    LaiKaplanF(GetItem(control_points_x, idx), delta,
               GetItem(control_points_y, idx),
               GetItem(control_points_y, RAdd(idx, Half)),
               GetItem(gradients_at_control_points, idx),
               GetItem(gradients_at_control_points, RAdd(idx, Half)))

\* lines 1255-1259: the average of the patch over the output interval
AverageOver(f, x_lower, x_upper) ==
    RDiv(calculate_integral_definite_unitless(f, x_lower, x_upper), RSub(x_upper, x_lower))

\* lines 1241-1259: one pass of the loop over the output intervals
EvaluateOutputInterval ==
    /\ pc = "eval_loop"
    /\ out_index < Len(x_bounds_out) - 1
    /\ LET idx == NextIntervalIdx
           x_lower == x_bounds_out[out_index + 1]
           x_upper == x_bounds_out[out_index + 2]
       IN  IF CrossesIntoNextPatch /\ PatchIndexError(idx)
           THEN /\ Raise(ErrIndex)
                /\ lai_kaplan_interval_idx' = idx
                /\ UNCHANGED <<x_i, lai_kaplan_f, y_out, out_index>>
           ELSE LET f == IF CrossesIntoNextPatch THEN PatchAt(idx) ELSE lai_kaplan_f
                IN  /\ lai_kaplan_interval_idx' = idx
                    /\ lai_kaplan_f' = f
                    /\ x_i' = IF CrossesIntoNextPatch THEN GetItem(control_points_x, idx) ELSE x_i
                    /\ IF f = None
                       THEN /\ Raise(ErrUnbound)
                            /\ UNCHANGED <<y_out, out_index>>
                       ELSE IF IntegralDefiniteRaises(f, x_lower, x_upper, TRUE)
                       THEN /\ Raise(ErrValue)
                            /\ UNCHANGED <<y_out, out_index>>
                       ELSE /\ y_out' = Append(y_out, AverageOver(f, x_lower, x_upper))
                            /\ out_index' = out_index + 1
                            /\ UNCHANGED <<pc, outcome>>
    /\ UNCHANGED <<earlier_result, self, args, trace, warnings, y_in, x_bounds_out, solve_vars,
                   gradients_at_control_points, y_out_evaluated, lba_vars>>

\* a comparison with min_val that never finds a value below it
NothingBelow(y, min_val) == FALSE

\* (y < self.min_val).any()
AnyBelow(y, min_val) == \E k \in 1..Len(y) : RLess(y[k], min_val)

\* lines 1261-1263 and 1035-1052: y_out is complete; without a violated
\* minimum it is returned, with an infeasible minimum the call raises,
\* otherwise lower_bound_adjustment starts
CheckMinimum ==
    /\ pc = "eval_loop"
    /\ out_index = Len(x_bounds_out) - 1
    /\ y_out_evaluated' = y_out
    /\ IF self.min_val # None /\ AnyBelow(y_out, self.min_val)
       THEN IF AnyBelow(y_in, self.min_val)
            THEN Raise(ErrInfeasibleMin)
            ELSE /\ pc' = "lower_bound_adjustment"
                 /\ UNCHANGED outcome
       ELSE /\ outcome' = "returned"
            /\ pc' = "done"
    /\ Ran("min_check")
    /\ UNCHANGED <<earlier_result, self, args, warnings, y_in, x_bounds_out, solve_vars,
                   gradients_at_control_points, out_index, lai_kaplan_interval_idx, x_i,
                   lai_kaplan_f, y_out, lba_vars>>

\* np.isclose(a, b, atol=atol, rtol=rtol)
IsClose(a, b, atol, rtol) == RLeq(RAbs(RSub(a, b)), RAdd(atol, RMul(rtol, RAbs(b))))

\* a lower_bound_adjustment without lines 1305-1307
NeverSnapped(y, min_val, atol, rtol) == y

\* lines 1305-1307: values close to min_val are set to min_val
SnapToMinVal(y, min_val, atol, rtol) ==
    Strict([k \in 1..Len(y) |-> IF IsClose(y[k], min_val, atol, rtol) THEN min_val ELSE y[k]])

\* line 1309: below_min, True counted as 1
BelowMin(y, min_val) ==
    Strict([k \in 1..Len(y) |-> IF RLess(y[k], min_val) THEN R(1) ELSE Zero])

\* a lower_bound_adjustment that finds no group to adjust
NoGroupsBelowMin(below_min_in_group_) == <<>>

\* line 1319: np.where(below_min_in_group > 0)[0]
GroupsBelowMin(below_min_in_group_) ==
    MinusOne(NpWhere(Strict([k \in 1..Len(below_min_in_group_) |->
        RLess(Zero, below_min_in_group_[k])])))

\* lines 1300-1325: the start of lower_bound_adjustment
StartLowerBoundAdjustment ==
    /\ pc = "lower_bound_adjustment"
    /\ LET snapped == SnapToMinVal(y_out, self.min_val, self.atol, self.rtol)
           below_min == BelowMin(snapped, self.min_val)
       IN  /\ y_out' = snapped
           /\ IF NonIntersectingBounds(x_bounds_out, args.x_bounds_in)
              THEN /\ Raise(ErrNonIntersecting)
                   /\ UNCHANGED <<below_min_in_group, y_out_group_index, iterh>>
              ELSE IF GroupSumsRaises(x_bounds_out, args.x_bounds_in)
              THEN /\ Raise(ErrIndex)
                   /\ UNCHANGED <<below_min_in_group, y_out_group_index, iterh>>
              ELSE /\ below_min_in_group' =
                          get_group_sums(x_bounds_out, below_min, args.x_bounds_in)
                   /\ y_out_group_index' = get_group_indexes(x_bounds_out, args.x_bounds_in)
                   /\ iterh' = GroupsBelowMin(
                          get_group_sums(x_bounds_out, below_min, args.x_bounds_in))
                   /\ pc' = "lba_loop"
                   /\ UNCHANGED outcome
    /\ Ran("lower_bound_adjustment")
    /\ UNCHANGED <<earlier_result, self, args, warnings, y_in, x_bounds_out, solve_vars,
                   gradients_at_control_points, out_index, lai_kaplan_interval_idx, x_i,
                   lai_kaplan_f, y_out_evaluated, applier_calls>>

\* line 1330: np.where(y_out_group_index == below_min_group_idx)[0], as positions
IntervalIndexer(y_out_group_index_, below_min_group_idx) ==
    NpWhere(Strict([k \in 1..Len(y_out_group_index_) |->
        y_out_group_index_[k] = below_min_group_idx]))

\* lines 1331-1339: the arguments of iterate_to_solution for one group
ApplierArguments(below_min_group_idx) ==
    LET interval_indexer == IntervalIndexer(y_out_group_index, below_min_group_idx)
        first == interval_indexer[1]
        last == interval_indexer[Len(interval_indexer)]
    IN  [starting_values |-> Strict([k \in 1..Len(interval_indexer) |-> y_out[interval_indexer[k]]]),
         x_bounds_out |-> Slice(x_bounds_out, first, IF last + 1 <= Len(x_bounds_out)
                                                     THEN last + 1 ELSE Len(x_bounds_out)),
         x_bounds_in |-> Slice(args.x_bounds_in, below_min_group_idx + 1, below_min_group_idx + 2),
         y_in |-> <<y_in[below_min_group_idx + 1]>>,
         left_bound_val |-> GetItem(control_points_y, R(below_min_group_idx + 1)),
         right_bound_val |-> GetItem(control_points_y, R(below_min_group_idx + 2)),
         min_val |-> self.min_val]

\* y_out[:] = interval_vals_updated[0]: the write reaches every interval
WriteEverywhere(y, interval_indexer, interval_vals_updated) ==
    Strict([p \in 1..Len(y) |-> interval_vals_updated[1]])

\* line 1351: y_out[interval_indexer] = interval_vals_updated
WriteBack(y, interval_indexer, interval_vals_updated) ==
    Strict([p \in 1..Len(y) |->
        IF \E k \in 1..Len(interval_indexer) : interval_indexer[k] = p
        THEN interval_vals_updated[CHOOSE k \in 1..Len(interval_indexer) : interval_indexer[k] = p]
        ELSE y[p]])

\* lines 1327-1351: one pass of the loop over the groups below the minimum
UpdateInterval ==
    /\ pc = "lba_loop"
    /\ iterh # <<>>
    /\ IF IntervalIndexer(y_out_group_index, Head(iterh)) = <<>>
       THEN /\ Raise(ErrIndex)
            /\ UNCHANGED <<y_out, iterh, applier_calls>>
       ELSE \E a \in {ApplierArguments(Head(iterh))} :
            \E interval_vals_updated \in
                iterate_to_solution(a.starting_values, a.x_bounds_out, a.x_bounds_in,
                                    a.y_in, a.left_bound_val, a.right_bound_val,
                                    a.min_val) :
                /\ y_out' = WriteBack(y_out, IntervalIndexer(y_out_group_index, Head(iterh)),
                                      interval_vals_updated)
                /\ applier_calls' = Append(applier_calls,
                       [group |-> Head(iterh), arguments |-> a,
                        result |-> interval_vals_updated])
                /\ iterh' = Tail(iterh)
                /\ UNCHANGED <<pc, outcome>>
    /\ UNCHANGED <<earlier_result, self, args, trace, warnings, y_in, x_bounds_out, solve_vars,
                   gradients_at_control_points, out_index, lai_kaplan_interval_idx, x_i,
                   lai_kaplan_f, y_out_evaluated, below_min_in_group, y_out_group_index>>

\* line 1353 and 1052: the adjusted y_out is returned
ReturnAdjusted ==
    /\ pc = "lba_loop"
    /\ iterh = <<>>
    /\ outcome' = "returned"
    /\ pc' = "done"
    /\ UNCHANGED <<earlier_result, self, args, trace, warnings, y_in, x_bounds_out, solve_vars, eval_vars,
                   lba_vars>>

Next ==
    \/ ConvertDtype
    \/ CheckSorted
    \/ CheckUniform
    \/ Extrapolate
    \/ WallValues
    \/ Solve
    \/ StartEvaluation
    \/ EvaluateOutputInterval
    \/ CheckMinimum
    \/ StartLowerBoundAdjustment
    \/ UpdateInterval
    \/ ReturnAdjusted

Spec == Init /\ [][Next]_vars


(***************************************************************************)
(* The grouping utilities called on their own: one call of one utility of  *)
(* grouping.py, args holding x_bounds, vals and group_bounds, y_out the    *)
(* value returned                                                          *)
(***************************************************************************)
\* values for the intervals of x_bounds: all one, a ramp, alternating 0 and 2
GroupingVals(n_intervals) ==
    { Strict([k \in 1..n_intervals |-> R(1)]),
      Strict([k \in 1..n_intervals |-> R(k)]),
      Strict([k \in 1..n_intervals |-> R(2 * (k % 2))]) }

\* group bounds tried on the boundaries 0, 1, ..., 2n
GroupBoundsSet(n) ==
    { XBoundsIn(n, FALSE),                 \* every second boundary
      <<R(0), R(2 * n)>>,                  \* the whole domain
      <<R(1), R(2)>>,                      \* starts inside the domain
      <<R(2), R(0)>>,                      \* present but unsorted
      <<R(0), R(0), R(2)>>,                \* a repeated value
      <<R(0)>>, <<>>,                      \* one boundary, none
      XBoundsIn(n, TRUE),                  \* last value absent from x_bounds
      <<R(0), Half, R(2)>>,                \* a value between two boundaries
      <<R(-1), R(0), R(2)>> }              \* a value left of the domain

\* the x_bounds tried: the fine grid 0, 1, ..., 2n, and the same grid without
\* the boundary 1 (its first interval is twice as wide as the others)
GroupingXBoundsSet(n) == { FineGrid(n), DropAt(FineGrid(n), 2) }

GroupingArgsSet ==
    UNION { UNION { { [x_bounds |-> xb, vals |-> v, group_bounds |-> g] :
                        v \in GroupingVals(Len(xb) - 1), g \in GroupBoundsSet(n) } :
                    xb \in GroupingXBoundsSet(n) } : n \in 1..MaxN }

GroupingInit ==
    /\ args \in GroupingArgsSet
    /\ self = None
    /\ pc = "call"
    /\ outcome = "running"
    /\ trace = <<>>
    /\ warnings = <<>>
    /\ y_in = None
    /\ x_bounds_out = None
    /\ x_step = None /\ delta = None
    /\ control_points_x = None
    /\ external_intervals_y_d = None
    /\ control_points_wall_y = None
    /\ control_points_y = None
    /\ gradients_at_control_points = None
    /\ out_index = 0
    /\ lai_kaplan_interval_idx = None
    /\ x_i = None
    /\ lai_kaplan_f = None
    /\ y_out = None
    /\ y_out_evaluated = None
    /\ below_min_in_group = None
    /\ y_out_group_index = None
    /\ iterh = None
    /\ applier_calls = <<>>
    /\ earlier_result = None

\* the utility returned without raising
NoError == "none"

\* the call of one utility ends: it raised err, or returned result
GroupingCallEnds(utility, err, result) ==
    /\ pc = "call"
    /\ pc' = "done"
    /\ trace' = <<utility>>
    /\ outcome' = IF err = NoError THEN "returned" ELSE err
    /\ y_out' = IF err = NoError THEN result ELSE None
    /\ UNCHANGED <<earlier_result, self, args, warnings, y_in, x_bounds_out, solve_vars,
                   gradients_at_control_points, out_index, lai_kaplan_interval_idx, x_i,
                   lai_kaplan_f, y_out_evaluated, lba_vars>>

\* the error of the first statement of every utility (grouping.py lines 85-91)
BoundaryIndexesError(x_bounds, group_bounds) ==
    IF NonIntersectingBounds(x_bounds, group_bounds) THEN ErrNonIntersecting ELSE NoError

\* the error of get_group_sums and get_group_integrals
GroupSumsError(x_bounds, group_bounds) ==
    IF NonIntersectingBounds(x_bounds, group_bounds) THEN ErrNonIntersecting
    ELSE IF GroupSumsRaises(x_bounds, group_bounds) THEN ErrIndex
    ELSE NoError

\* the error of get_group_averages
GroupAveragesError(x_bounds, group_bounds) ==
    IF GroupSumsError(x_bounds, group_bounds) # NoError THEN GroupSumsError(x_bounds, group_bounds)
    ELSE IF GroupAveragesShapeError(x_bounds, group_bounds) THEN ErrValue
    ELSE NoError

CallGetGroupBoundaryIndexes ==
    GroupingCallEnds("get_group_boundary_indexes",
                     BoundaryIndexesError(args.x_bounds, args.group_bounds),
                     get_group_boundary_indexes(args.x_bounds, args.group_bounds))

CallGetNumberElementsPerGroup ==
    GroupingCallEnds("get_number_elements_per_group",
                     BoundaryIndexesError(args.x_bounds, args.group_bounds),
                     get_number_elements_per_group(args.x_bounds, args.group_bounds))

CallGetGroupIndexes ==
    GroupingCallEnds("get_group_indexes",
                     BoundaryIndexesError(args.x_bounds, args.group_bounds),
                     get_group_indexes(args.x_bounds, args.group_bounds))

CallGetGroupSums ==
    GroupingCallEnds("get_group_sums",
                     GroupSumsError(args.x_bounds, args.group_bounds),
                     get_group_sums(args.x_bounds, args.vals, args.group_bounds))

CallGetGroupIntegrals ==
    GroupingCallEnds("get_group_integrals",
                     GroupSumsError(args.x_bounds, args.group_bounds),
                     get_group_integrals(args.x_bounds, args.vals, args.group_bounds))

CallGetGroupAverages ==
    GroupingCallEnds("get_group_averages",
                     GroupAveragesError(args.x_bounds, args.group_bounds),
                     get_group_averages(args.x_bounds, args.vals, args.group_bounds))

GroupingNext ==
    \/ CallGetGroupBoundaryIndexes
    \/ CallGetNumberElementsPerGroup
    \/ CallGetGroupIndexes
    \/ CallGetGroupSums
    \/ CallGetGroupIntegrals
    \/ CallGetGroupAverages

GroupingSpec == GroupingInit /\ [][GroupingNext]_vars


(***************************************************************************)
(* Properties of a call of the interpolator                                *)
(***************************************************************************)
\* the call has ended: it returned or it raised
Done == pc = "done"

\* the call has returned y_out
Returned == pc = "done" /\ outcome = "returned"

\* the step has run
InTrace(step) == \E k \in 1..Len(trace) : trace[k] = step

\* every boundary of xi is one of xo
Refinement(xo, xi) == \A k \in 1..Len(xi) : \E j \in 1..Len(xo) : xo[j] = xi[k]

\* a minimum is configured and some value of y is below it
SomeBelowMinVal(y) ==
    /\ self.min_val # None
    /\ \E k \in 1..Len(y) : RLess(y[k], self.min_val)

\* the steps of a call that reaches the comparison of y_out with min_val
StepsUntilMinCheck ==
    <<"dtype", "sorted", "uniform", "extrapolate", "walls", "solve", "evaluate", "min_check">>

\* C1: every call that returns for an x_bounds_out that is a refinement of
\* x_bounds_in returns a y_out whose averages over the input intervals,
\* get_group_averages(x_bounds_out, y_out, x_bounds_in), equal y_in
C1_MeanPreservation ==
    (Returned /\ Refinement(x_bounds_out, args.x_bounds_in))
        => get_group_averages(x_bounds_out, y_out, args.x_bounds_in) = y_in

\* C2: when a minimum is configured and no input mean is below it, every
\* value of the returned y_out is at least min_val, and the returned values of
\* every input interval that lower_bound_adjustment corrected average to the
\* input mean of that interval
C2_MinimumEnforced ==
    (Returned /\ self.min_val # None /\ ~SomeBelowMinVal(y_in))
        => /\ \A k \in 1..Len(y_out) : RLeq(self.min_val, y_out[k])
           /\ \A c \in 1..Len(applier_calls) :
                  get_group_averages(x_bounds_out, y_out, args.x_bounds_in)
                      [applier_calls[c].group + 1] = y_in[applier_calls[c].group + 1]

\* C2 happens: a call returned after correcting an interval whose input mean
\* lies above min_val and whose evaluated values went below min_val
C2_Witness ==
    /\ Returned
    /\ \E c \in 1..Len(applier_calls) :
           /\ RLess(self.min_val, y_in[applier_calls[c].group + 1])
           /\ SomeBelowMinVal(applier_calls[c].arguments.starting_values)

\* C3: when all input means equal one value v, every value of the returned
\* y_out equals v, for every output grid that lies within the input domain
C3_ConstantReproduction ==
    (/\ Returned
     /\ \A k \in 1..Len(y_in) : y_in[k] = y_in[1]
     /\ RLeq(args.x_bounds_in[1], x_bounds_out[1])
     /\ RLeq(x_bounds_out[Len(x_bounds_out)], args.x_bounds_in[Len(args.x_bounds_in)]))
        => \A k \in 1..Len(y_out) : y_out[k] = y_in[1]

\* C4: a call with x_bounds_out equal to x_bounds_in, on inputs that pass the
\* input checks and the policies and have no mean below min_val, returns
\* y_out equal to y_in
C4_TrivialResampling ==
    (Done /\ InTrace("evaluate") /\ x_bounds_out = args.x_bounds_in /\ ~SomeBelowMinVal(y_in))
        => Returned /\ y_out = y_in

\* C5: without a minimum, a call that reaches the evaluation of the output
\* (x_bounds_out non-decreasing, covering a sub-set or a super-set of the
\* input domain at any resolution) returns len(x_bounds_out) - 1 values
C5_AnyOutputGrid ==
    (Done /\ InTrace("evaluate") /\ self.min_val = None)
        => Returned /\ Len(y_out) = Len(x_bounds_out) - 1

C7_InfeasibleMinimumAfterEvaluation ==
    outcome = ErrInfeasibleMin
        => /\ trace = StepsUntilMinCheck
           /\ control_points_y # None
           /\ Len(y_out_evaluated) = Len(x_bounds_out) - 1
           /\ applier_calls = <<>>

\* C7 happens: the error was raised with the solved control points and all
\* evaluated output values at hand
C7_Witness ==
    /\ outcome = ErrInfeasibleMin
    /\ InTrace("solve")
    /\ Len(y_out_evaluated) = Len(x_bounds_out) - 1

\* C7 as stated: the infeasible-minimum error is raised before extrapolation,
\* wall values, solve and evaluation have run
C7_InfeasibleMinimumBeforeSolve ==
    outcome = ErrInfeasibleMin
        => /\ ~InTrace("extrapolate")
           /\ ~InTrace("walls")
           /\ ~InTrace("solve")
           /\ ~InTrace("evaluate")

\* x_bounds_out is not non-decreasing
Unsorted(xo) == \E k \in 1..(Len(xo) - 1) : RLess(xo[k + 1], xo[k])

\* C8: a call with an x_bounds_out that is not non-decreasing never gets past
\* the check of the order and ends with the error of that check, nothing of
\* the uniform-spacing check, the policies, the solve, the evaluation or the
\* minimum handling having run; no other call ends with that error
C8_UnsortedRaisesBeforeAnyWork ==
    /\ Unsorted(args.x_bounds_out)
           => /\ pc \in {"dtype", "sorted", "done"}
              /\ Done => /\ outcome = ErrUnsorted
                         /\ trace = <<"dtype", "sorted">>
                         /\ x_step = None /\ delta = None /\ control_points_x = None
                         /\ external_intervals_y_d = None
                         /\ control_points_wall_y = None
                         /\ control_points_y = None
                         /\ gradients_at_control_points = None
                         /\ y_out_evaluated = None
                         /\ applier_calls = <<>>
    /\ outcome = ErrUnsorted => Unsorted(args.x_bounds_out)

\* C8 happens: a call with unsorted x_bounds_out has ended
C8_Witness ==
    /\ Done
    /\ Unsorted(args.x_bounds_out)
    /\ outcome = ErrUnsorted

\* some step of x_bounds_in differs from the first step by more than
\* rtol_uniform_steps times its size
StepsDiffer(x) ==
    \E k \in 2..(Len(x) - 1) :
        RLess(RMul(self.rtol_uniform_steps, RAbs(RSub(x[k + 1], x[k]))),
              RAbs(RSub(RSub(x[2], x[1]), RSub(x[k + 1], x[k]))))

\* C9: a call whose x_bounds_in steps differ never gets past the check of the
\* spacing: it ends with the error of that check (or, x_bounds_out being
\* unsorted, of the check before it), no policy and no solve having run;
\* a call whose steps are all equal never ends with that error
C9_NonUniformRaisesImmediately ==
    /\ StepsDiffer(args.x_bounds_in)
           => /\ pc \in {"dtype", "sorted", "uniform", "done"}
              /\ Done => /\ outcome = IF Unsorted(args.x_bounds_out)
                                      THEN ErrUnsorted ELSE ErrNonUniform
                         /\ external_intervals_y_d = None
                         /\ control_points_wall_y = None
                         /\ control_points_y = None
                         /\ y_out_evaluated = None
    /\ ~StepsDiffer(args.x_bounds_in) => outcome # ErrNonUniform

\* C9 happens: a call with differing steps has ended at the spacing check
C9_Witness ==
    /\ Done
    /\ StepsDiffer(args.x_bounds_in)
    /\ outcome = ErrNonUniform
    /\ trace = <<"dtype", "sorted", "uniform">>


(***************************************************************************)
(* Properties of a call of a grouping utility                              *)
(***************************************************************************)
\* some value of group_bounds is not a value of x_bounds
AbsentGroupBound ==
    \E k \in 1..Len(args.group_bounds) :
        \A j \in 1..Len(args.x_bounds) : args.x_bounds[j] # args.group_bounds[k]

\* C10: each of the six grouping utilities, called with a group_bounds that
\* has a value absent from x_bounds, ends with NonIntersectingBoundsError and
\* returns no result; a call whose group_bounds are all present never ends
\* with that error
C10_AbsentGroupBoundRaises ==
    Done => /\ trace \in { <<"get_group_boundary_indexes">>, <<"get_number_elements_per_group">>,
                           <<"get_group_indexes">>, <<"get_group_sums">>,
                           <<"get_group_integrals">>, <<"get_group_averages">> }
            /\ AbsentGroupBound => outcome = ErrNonIntersecting /\ y_out = None
            /\ ~AbsentGroupBound => outcome # ErrNonIntersecting

\* C10 happens: get_group_averages was called with a group bound that lies
\* between two values of x_bounds
C10_Witness ==
    /\ Done
    /\ trace = <<"get_group_averages">>
    /\ AbsentGroupBound
    /\ \E k \in 1..Len(args.group_bounds) :
           /\ RLess(args.x_bounds[1], args.group_bounds[k])
           /\ RLess(args.group_bounds[k], args.x_bounds[Len(args.x_bounds)])
    /\ outcome = ErrNonIntersecting


(***************************************************************************)
(* LaiKaplanArray used on its own: one read or write of an array, self the *)
(* array, args the index, y_out the value read                             *)
(***************************************************************************)
\* the longest array tried
MaxArrayLen == 3

\* the arrays tried: data 10, 20, ... under the two index conventions in use
ArraySet ==
    { LaiKaplanArray(idx_min, stride, Strict([k \in 1..n |-> R(10 * k)])) :
        idx_min \in {Half, R(1)}, stride \in {Half, R(1)}, n \in 1..MaxArrayLen }

\* the paper-style indexes tried: on and off the stride, below idx_min, past the end
ArrayIndexes ==
    {R(0), <<1, 4>>, Half, <<3, 4>>, R(1), <<5, 4>>, <<3, 2>>, R(2), <<5, 2>>, R(3), R(4), R(5)}

\* the slice steps tried (None: omitted)
ArraySteps == {None, <<1, 4>>, Half, R(1), <<3, 2>>, R(2)}

\* the value a write stores
WrittenValue == R(99)

ArrayArgsSet ==
    { [kind |-> "scalar", idx |-> i] : i \in ArrayIndexes }
    \cup { [kind |-> "slice", start |-> a, stop |-> b, step |-> st] :
             a \in ArrayIndexes \cup {None}, b \in ArrayIndexes \cup {None}, st \in ArraySteps }

ArrayInit ==
    /\ self \in ArraySet
    /\ args \in ArrayArgsSet
    /\ pc = "call"
    /\ outcome = "running"
    /\ trace = <<>>
    /\ warnings = <<>>
    /\ y_in = self.data
    /\ x_bounds_out = None
    /\ x_step = None /\ delta = None
    /\ control_points_x = None
    /\ external_intervals_y_d = None
    /\ control_points_wall_y = None
    /\ control_points_y = None
    /\ gradients_at_control_points = None
    /\ out_index = 0
    /\ lai_kaplan_interval_idx = None
    /\ x_i = None
    /\ lai_kaplan_f = None
    /\ y_out = None
    /\ y_out_evaluated = None
    /\ below_min_in_group = None
    /\ y_out_group_index = None
    /\ iterh = None
    /\ applier_calls = <<>>
    /\ earlier_result = None

\* the access ends: it raised IndexError, or returned result leaving the array new_self
ArrayCallEnds(method, raises, result, new_self) ==
    /\ pc = "call"
    /\ pc' = "done"
    /\ trace' = <<method>>
    /\ outcome' = IF raises THEN ErrIndex ELSE "returned"
    /\ y_out' = IF raises THEN None ELSE result
    /\ self' = IF raises THEN self ELSE new_self
    /\ UNCHANGED <<earlier_result, args, warnings, y_in, x_bounds_out, solve_vars,
                   gradients_at_control_points, out_index, lai_kaplan_interval_idx, x_i,
                   lai_kaplan_f, y_out_evaluated, lba_vars>>

\* lines 143-160, scalar index
GetItemCall ==
    /\ args.kind = "scalar"
    /\ ArrayCallEnds("__getitem__", to_data_index(self, args.idx, FALSE) = IndexError,
                     GetItem(self, args.idx), self)

\* lines 162-179, scalar index
SetItemCall ==
    /\ args.kind = "scalar"
    /\ ArrayCallEnds("__setitem__", to_data_index(self, args.idx, FALSE) = IndexError,
                     None, SetItem(self, args.idx, WrittenValue))

\* lines 143-160, slice
GetSliceCall ==
    /\ args.kind = "slice"
    /\ ArrayCallEnds("__getitem__",
                     DataSlice(self, args.start, args.stop, args.step) = <<IndexError>>,
                     GetSlice(self, args.start, args.stop, args.step), self)

\* lines 162-179, slice; the written value is broadcast over the slice
SetSliceCall ==
    /\ args.kind = "slice"
    /\ ArrayCallEnds("__setitem__",
                     DataSlice(self, args.start, args.stop, args.step) = <<IndexError>>,
                     None,
                     SetSlice(self, args.start, args.stop, args.step,
                              Strict([k \in 1..Len(self.data) |-> WrittenValue])))

ArrayNext ==
    \/ GetItemCall
    \/ SetItemCall
    \/ GetSliceCall
    \/ SetSliceCall

ArraySpec == ArrayInit /\ [][ArrayNext]_vars


(***************************************************************************)
(* Properties of an access to a LaiKaplanArray                             *)
(***************************************************************************)
\* the number n in lo..hi of strides with idx = idx_min + n * stride, -1 if
\* there is none
ExactOffset(idx, lo, hi) ==
    IF \E n \in lo..hi :
           idx = RAdd(self.lai_kaplan_idx_min, RMul(R(n), self.lai_kaplan_stride))
    THEN CHOOSE n \in lo..hi :
           idx = RAdd(self.lai_kaplan_idx_min, RMul(R(n), self.lai_kaplan_stride))
    ELSE -1

\* the number m >= 1 of strides with step = m * stride, -1 if there is none
ExactStep(step) ==
    IF \E m \in 1..(2 * MaxArrayLen + 4) : step = RMul(R(m), self.lai_kaplan_stride)
    THEN CHOOSE m \in 1..(2 * MaxArrayLen + 4) : step = RMul(R(m), self.lai_kaplan_stride)
    ELSE -1

\* the data offsets of the slice the call names (-1: the part is not exact)
SliceStartOffset == IF args.start = None THEN 0 ELSE ExactOffset(args.start, 0, Len(y_in))
SliceStopOffset == IF args.stop = None THEN Len(y_in) ELSE ExactOffset(args.stop, 0, Len(y_in))
SliceStepOffset == IF args.step = None THEN 1 ELSE ExactStep(args.step)

\* the offsets of the elements the slice selects
SliceSelected ==
    { p \in 0..(Len(y_in) - 1) :
        /\ SliceStartOffset <= p
        /\ p < SliceStopOffset
        /\ (p - SliceStartOffset) % SliceStepOffset = 0 }

\* the access raised IndexError: nothing was read and nothing was written
RaisedIndexError == outcome = ErrIndex /\ y_out = None /\ self.data = y_in

\* C11: a read or write with a scalar index touches exactly the element at
\* offset (idx - idx_min) / stride when that is a whole number within the
\* array, and raises IndexError otherwise; a read or write with a slice
\* touches exactly the elements start, start + step, ... below stop when
\* start and stop are whole offsets of at most the array's size and step is
\* a whole number of strides, and raises IndexError otherwise
C11_IndexContract ==
    Done =>
        IF args.kind = "scalar"
        THEN IF ExactOffset(args.idx, 0, Len(y_in) - 1) = -1
             THEN RaisedIndexError
             ELSE /\ outcome = "returned"
                  /\ trace = <<"__getitem__">> =>
                         /\ y_out = y_in[ExactOffset(args.idx, 0, Len(y_in) - 1) + 1]
                         /\ self.data = y_in
                  /\ trace = <<"__setitem__">> =>
                         \A p \in 0..(Len(y_in) - 1) :
                             self.data[p + 1] =
                                 IF p = ExactOffset(args.idx, 0, Len(y_in) - 1)
                                 THEN WrittenValue ELSE y_in[p + 1]
        ELSE IF SliceStartOffset = -1 \/ SliceStopOffset = -1 \/ SliceStepOffset = -1
             THEN RaisedIndexError
             ELSE /\ outcome = "returned"
                  /\ trace = <<"__getitem__">> =>
                         /\ Len(y_out) = Cardinality(SliceSelected)
                         /\ \A p \in SliceSelected :
                                y_out[Cardinality({q \in SliceSelected : q < p}) + 1] = y_in[p + 1]
                         /\ self.data = y_in
                  /\ trace = <<"__setitem__">> =>
                         \A p \in 0..(Len(y_in) - 1) :
                             self.data[p + 1] =
                                 IF p \in SliceSelected THEN WrittenValue ELSE y_in[p + 1]

\* C11 happens: an index between the first and the last element that is not
\* on the stride was used and the access raised
C11_Witness ==
    /\ Done
    /\ args.kind = "scalar"
    /\ RLess(self.lai_kaplan_idx_min, args.idx)
    /\ RLess(args.idx, RAdd(self.lai_kaplan_idx_min,
                            RMul(R(Len(y_in) - 1), self.lai_kaplan_stride)))
    /\ ExactOffset(args.idx, 0, Len(y_in) - 1) = -1
    /\ RaisedIndexError


(***************************************************************************)
(* interpolate_annual_mean_to_monthly: self the algorithm handed in, args  *)
(* the arguments, x_bounds_out the monthly boundaries, y_out_evaluated the *)
(* monthly values mean_preserving_interpolation returned, y_out the        *)
(* DataArray returned                                                      *)
(***************************************************************************)
N_MONTHS_PER_YEAR == 12
\* month_rounding: int = 4
DefaultMonthRounding == 4
\* out_day: int = 15
DefaultOutDay == 15
\* the relative tolerance of the verification, as its reciprocal (1e-8)
VerifyRtolInverse == 100000000

ErrNotMeanPreserving == "AssertionError: not mean-preserving"

\* np.floor of a rational, as an integer
NpFloor(a) == a[1] \div a[2]

\* np.round to an integer: halves go to the even neighbour
NpRound(a) ==
    IF RLess(RSub(a, R(NpFloor(a))), Half) THEN NpFloor(a)
    ELSE IF RLess(Half, RSub(a, R(NpFloor(a)))) THEN NpFloor(a) + 1
    ELSE IF NpFloor(a) % 2 = 0 THEN NpFloor(a) ELSE NpFloor(a) + 1

\* np.round(a, decimals)
NpRoundDecimals(a, decimals) ==
    RDiv(R(NpRound(RMul(a, R(10 ^ decimals)))), R(10 ^ decimals))

\* np.arange(start, stop, step): ceil((stop - start) / step) values
NpARange(start, stop, step) ==
    Strict([k \in 1..(-NpFloor(RNeg(RDiv(RSub(stop, start), step)))) |->
        RAdd(start, RMul(R(k - 1), step))])

\* line 76: np.hstack([years, years[-1] + 1.0])
MonthlyXBoundsIn(years) == RSeq(years) \o <<R(years[Len(years)] + 1)>>

\* lines 77-83: np.round(np.arange(first, last + 1 / 12 / 2, 1 / 12), month_rounding)
MonthlyXBoundsOut(x_bounds_in, month_rounding) ==
    Strict([k \in 1..Len(NpARange(x_bounds_in[1],
                                  RAdd(x_bounds_in[Len(x_bounds_in)],
                                       <<1, 2 * N_MONTHS_PER_YEAR>>),
                                  <<1, N_MONTHS_PER_YEAR>>)) |->
        NpRoundDecimals(NpARange(x_bounds_in[1],
                                 RAdd(x_bounds_in[Len(x_bounds_in)],
                                      <<1, 2 * N_MONTHS_PER_YEAR>>),
                                 <<1, N_MONTHS_PER_YEAR>>)[k], month_rounding)])

\* line 93: (x_bounds_out[1:] + x_bounds_out[:-1]) / 2.0
MonthOut(x_bounds_out_) ==
    Strict([k \in 1..(Len(x_bounds_out_) - 1) |->
        RDiv(RAdd(x_bounds_out_[k + 1], x_bounds_out_[k]), R(2))])

\* lines 95-102: cftime.datetime(np.floor(time_val),
\*                               np.round(12 * (time_val % 1 + 1 / 12 / 2)), out_day)
TimeOut(month_out, out_day) ==
    Strict([k \in 1..Len(month_out) |->
        << NpFloor(month_out[k]),
           NpRound(RMul(R(N_MONTHS_PER_YEAR),
                        RAdd(RSub(month_out[k], R(NpFloor(month_out[k]))),
                             <<1, 2 * N_MONTHS_PER_YEAR>>))),
           out_day >>])

\* DEFAULT_ALGORITHM, lines 28-32: the fields it sets and the default
\* extrapolation policies
DEFAULT_ALGORITHM ==
    [extrapolate_left |-> CONSTANT_HANDLING, extrapolate_right |-> CUBIC_EXTRAPOLATION,
     get_wall_control_points_y_from_interval_ys |-> WALL_FLAT,
     min_val |-> R(0)]

\* two other implementations of the algorithm protocol: the input mean of the
\* year repeated for each of its months, and the same with one month raised
STEPWISE_ALGORITHM == [name |-> "stepwise"]
BIASED_ALGORITHM == [name |-> "biased"]

AlgorithmSet == {DEFAULT_ALGORITHM, STEPWISE_ALGORITHM, BIASED_ALGORITHM}

\* each output interval gets the input mean of the input interval it lies in
Stepwise(x_bounds_in, y_in_, x_bounds_out_) ==
    Strict([k \in 1..(Len(x_bounds_out_) - 1) |->
        y_in_[CHOOSE j \in 1..(Len(x_bounds_in) - 1) :
                  /\ RLeq(x_bounds_in[j], x_bounds_out_[k])
                  /\ RLeq(x_bounds_out_[k + 1], x_bounds_in[j + 1])]])

\* algorithm(x_bounds_in=..., y_in=..., x_bounds_out=...) raises
AlgorithmRaises(algorithm, x_bounds_in, y_in_, x_bounds_out_) ==
    /\ algorithm = DEFAULT_ALGORITHM
    /\ ExtrapolateRaises(y_in_, algorithm.extrapolate_left, algorithm.extrapolate_right)

\* what algorithm(...) returns when it does not raise; the default algorithm
\* is called on constant non-negative input means, which it reproduces
AlgorithmCall(algorithm, x_bounds_in, y_in_, x_bounds_out_) ==
    IF algorithm = BIASED_ALGORITHM
    THEN [Stepwise(x_bounds_in, y_in_, x_bounds_out_) EXCEPT
              ![1] = RAdd(y_in_[1], R(1))]
    ELSE Stepwise(x_bounds_in, y_in_, x_bounds_out_)

\* |actual - desired| <= rtol * |desired| with rtol = 1 / VerifyRtolInverse
WithinRtol(actual, desired) ==
    \/ actual = desired
    \/ /\ desired # Zero
       /\ (AbsInt(desired[1]) * RAbs(RSub(actual, desired))[2])
              \div (RAbs(RSub(actual, desired))[1] * desired[2]) >= VerifyRtolInverse

\* the verification is left out
VerificationSkipped(x_bounds_in, y_in_, x_bounds_out_, res) == FALSE

\* the re-aggregated output differs from the input means beyond the tolerance
VerificationFails(x_bounds_in, y_in_, x_bounds_out_, res) ==
    \E j \in 1..Len(y_in_) :
        ~WithinRtol(get_group_averages(x_bounds_out_, res, x_bounds_in)[j], y_in_[j])

\* the years and values of a call
MonthlyFirstYears == {2000, 2020}
MonthlyVals == {5, 8}

MonthlyArgsSet ==
    UNION { { [years |-> [k \in 1..n |-> first + k - 1],
               values |-> RSeq(v),
               month_rounding |-> DefaultMonthRounding,
               verify_output_is_mean_preserving |-> verify,
               out_day |-> day,
               x_bounds_in |-> None] :
                 first \in MonthlyFirstYears, v \in [1..n -> MonthlyVals],
                 verify \in BOOLEAN, day \in {DefaultOutDay, 1} } : n \in 1..MaxN }

\* the default algorithm is tried on fewer intervals than its cubic
\* extrapolation needs, and on constant input means
MonthlyCallTried(s, a) ==
    s = DEFAULT_ALGORITHM =>
        \/ Len(a.values) < MinCubicPoints
        \/ \A k \in 1..Len(a.values) : a.values[k] = a.values[1]

MonthlyInit ==
    /\ self \in AlgorithmSet
    /\ args \in MonthlyArgsSet
    /\ MonthlyCallTried(self, args)
    /\ pc = "bounds"
    /\ outcome = "running"
    /\ trace = <<>>
    /\ warnings = <<>>
    /\ y_in = args.values
    /\ x_bounds_out = None
    /\ x_step = None /\ delta = None
    /\ control_points_x = None
    /\ external_intervals_y_d = None
    /\ control_points_wall_y = None
    /\ control_points_y = None
    /\ gradients_at_control_points = None
    /\ out_index = 0
    /\ lai_kaplan_interval_idx = None
    /\ x_i = None
    /\ lai_kaplan_f = None
    /\ y_out = None
    /\ y_out_evaluated = None
    /\ below_min_in_group = None
    /\ y_out_group_index = None
    /\ iterh = None
    /\ applier_calls = <<>>
    /\ earlier_result = None

\* lines 76-83
BuildBounds ==
    /\ pc = "bounds"
    /\ pc' = "interpolate"
    /\ args' = [args EXCEPT !.x_bounds_in = MonthlyXBoundsIn(args.years)]
    /\ x_bounds_out' = MonthlyXBoundsOut(MonthlyXBoundsIn(args.years), args.month_rounding)
    /\ Ran("bounds")
    /\ UNCHANGED <<earlier_result, self, outcome, warnings, y_in, solve_vars, eval_vars, lba_vars>>

\* lines 85-91: mean_preserving_interpolation calls the algorithm and, when
\* asked to, verifies what it returned
CallMeanPreservingInterpolation ==
    /\ pc = "interpolate"
    /\ Ran("mean_preserving_interpolation")
    /\ IF AlgorithmRaises(self, args.x_bounds_in, y_in, x_bounds_out)
       THEN Raise(ErrValue) /\ UNCHANGED y_out_evaluated
       ELSE \E res \in {AlgorithmCall(self, args.x_bounds_in, y_in, x_bounds_out)} :
              IF /\ args.verify_output_is_mean_preserving
                 /\ VerificationFails(args.x_bounds_in, y_in, x_bounds_out, res)
              THEN Raise(ErrNotMeanPreserving) /\ UNCHANGED y_out_evaluated
              ELSE /\ y_out_evaluated' = res
                   /\ pc' = "timestamps"
                   /\ UNCHANGED outcome
    /\ UNCHANGED <<earlier_result, self, args, warnings, y_in, x_bounds_out, solve_vars,
                   gradients_at_control_points, out_index, lai_kaplan_interval_idx, x_i,
                   lai_kaplan_f, y_out, lba_vars>>

\* lines 93-110
BuildDataArray ==
    /\ pc = "timestamps"
    /\ pc' = "done"
    /\ outcome' = "returned"
    /\ Ran("timestamps")
    /\ y_out' = [data |-> y_out_evaluated,
                 time |-> TimeOut(MonthOut(x_bounds_out), args.out_day)]
    /\ UNCHANGED <<earlier_result, self, args, warnings, y_in, x_bounds_out, solve_vars,
                   gradients_at_control_points, out_index, lai_kaplan_interval_idx, x_i,
                   lai_kaplan_f, y_out_evaluated, lba_vars>>

MonthlyNext ==
    \/ BuildBounds
    \/ CallMeanPreservingInterpolation
    \/ BuildDataArray

MonthlySpec == MonthlyInit /\ [][MonthlyNext]_vars


(***************************************************************************)
(* Properties of interpolate_annual_mean_to_monthly                        *)
(***************************************************************************)
\* the timestamps of the months of the years, in chronological order
ExpectedTimeOut(years, out_day) ==
    [k \in 1..(N_MONTHS_PER_YEAR * Len(years)) |->
        << years[((k - 1) \div N_MONTHS_PER_YEAR) + 1],
           ((k - 1) % N_MONTHS_PER_YEAR) + 1,
           out_day >>]

\* a call that returned has one value per month of the input years, stamped
\* (year, month, out_day) in chronological order
ReturnedMonthlyShape ==
    (pc = "done" /\ outcome = "returned") =>
        /\ Len(args.x_bounds_in) = Len(args.years) + 1
        /\ Len(x_bounds_out) = N_MONTHS_PER_YEAR * Len(args.years) + 1
        /\ Len(y_out.data) = N_MONTHS_PER_YEAR * Len(args.years)
        /\ y_out.time = ExpectedTimeOut(args.years, args.out_day)

\* C12: a call with the default algorithm on N consecutive years builds N + 1
\* input boundaries and 12 N + 1 output boundaries and returns 12 N values
\* stamped (year, month, out_day), month 1 to 12 of each input year in
\* chronological order
C12_MonthlyShapeAndTimestamps ==
    (pc = "done" /\ self = DEFAULT_ALGORITHM) =>
        /\ outcome = "returned"
        /\ Len(args.x_bounds_in) = Len(args.years) + 1
        /\ Len(x_bounds_out) = N_MONTHS_PER_YEAR * Len(args.years) + 1
        /\ Len(y_out.data) = N_MONTHS_PER_YEAR * Len(args.years)
        /\ y_out.time = ExpectedTimeOut(args.years, args.out_day)


\* the monthly values re-aggregated to the input years equal the input means
\* within the tolerance
AnnualMeansMatch(monthly_vals) ==
    \A j \in 1..Len(y_in) :
        WithinRtol(get_group_averages(x_bounds_out, monthly_vals, args.x_bounds_in)[j],
                   y_in[j])

FlatRun(y) ==
    IF \A k \in 1..Len(y) : y[k] = y[1] THEN Len(y)
    ELSE (CHOOSE k \in 1..Len(y) : y[k] # y[1] /\ \A j \in 1..(k - 1) : y[j] = y[1]) - 1

\* a call with constant extrapolation on the left and the flat-override wall
\* policy, on input means that start with a run of two or more equal values
\* followed by a change, for the output grid of all boundaries and mid-points
FlatRunCall ==
    /\ self.extrapolate_left = CONSTANT_HANDLING
    /\ self.get_wall_control_points_y_from_interval_ys = WALL_FLAT
    /\ self.min_val = None
    /\ args.x_bounds_in = XBoundsIn(Len(y_in), FALSE)
    /\ x_bounds_out = FineGrid(Len(y_in))
    /\ FlatRun(y_in) >= 2
    /\ FlatRun(y_in) < Len(y_in)

\* C14: with constant extrapolation on the left and the flat-override wall
\* policy, every output value from the first one to the last one of the
\* initial run of equal input means is exactly the initial value
C14_InitialRunStaysFlat ==
    (Returned /\ FlatRunCall) =>
        \A k \in 1..(2 * FlatRun(y_in)) : y_out[k] = y_in[1]


(***************************************************************************)
(* One interpolator shared by two calls: when a call has ended, the same   *)
(* instance is called again with the same arrays of the caller, all as the *)
(* first call left them                                                    *)
(***************************************************************************)
CallAgain ==
    /\ pc = "done"
    /\ earlier_result = None
    /\ earlier_result' = [outcome |-> outcome, y_out |-> y_out, applier_calls |-> applier_calls]
    /\ pc' = "dtype"
    /\ outcome' = "running"
    /\ trace' = <<>>
    /\ y_in' = args.y_in
    /\ x_bounds_out' = args.x_bounds_out
    /\ x_step' = None /\ delta' = None
    /\ control_points_x' = None
    /\ external_intervals_y_d' = None
    /\ control_points_wall_y' = None
    /\ control_points_y' = None
    /\ gradients_at_control_points' = None
    /\ out_index' = 0
    /\ lai_kaplan_interval_idx' = None
    /\ x_i' = None
    /\ lai_kaplan_f' = None
    /\ y_out' = None
    /\ y_out_evaluated' = None
    /\ below_min_in_group' = None
    /\ y_out_group_index' = None
    /\ iterh' = None
    /\ applier_calls' = <<>>
    /\ UNCHANGED <<self, args, warnings>>

SharedNext ==
    \/ Next
    \/ CallAgain

\* the most input intervals of a call that is repeated
MaxSharedN == 2

SharedInit ==
    /\ Init
    /\ Len(args.y_in) <= MaxSharedN

SharedSpec == SharedInit /\ [][SharedNext]_vars


(***************************************************************************)
(* Properties of calls on a shared interpolator                            *)
(***************************************************************************)
\* the applier was handed the same arguments, for the same groups in the same
\* order, in both sequences of calls
SameApplierArguments(calls, earlier_calls) ==
    /\ Len(calls) = Len(earlier_calls)
    /\ \A k \in 1..Len(calls) :
           /\ calls[k].group = earlier_calls[k].group
           /\ calls[k].arguments = earlier_calls[k].arguments

SnappedEvaluation ==
    [k \in 1..Len(y_out_evaluated) |->
        IF IsClose(y_out_evaluated[k], self.min_val, self.atol, self.rtol)
        THEN self.min_val ELSE y_out_evaluated[k]]

\* no value of y in the input interval of output position k is below min_val
NoneBelowInIntervalOf(y, k) ==
    \A j \in 1..Len(y) :
        y_out_group_index[j] = y_out_group_index[k] => ~RLess(y[j], self.min_val)

\* lower_bound_adjustment ran and the call returned
ReturnedAdjusted == Returned /\ InTrace("lower_bound_adjustment")

\* C16: when lower_bound_adjustment ran, every output value of an input
\* interval that has no value below min_val once the values within atol and
\* rtol of min_val have been set to min_val is returned as the evaluation
\* produced it, or as min_val if it was within atol and rtol of min_val
C16_UncorrectedIntervalsOnlySnapped ==
    ReturnedAdjusted =>
        \A k \in 1..Len(y_out) :
            NoneBelowInIntervalOf(SnappedEvaluation, k) => y_out[k] = SnappedEvaluation[k]

\* C16 happens: of two input intervals one was corrected and the other, which
\* had no value below min_val, was returned with values untouched by the
\* applier
C16_Witness ==
    /\ ReturnedAdjusted
    /\ applier_calls # <<>>
    /\ \E k \in 1..Len(y_out) :
           /\ NoneBelowInIntervalOf(SnappedEvaluation, k)
           /\ y_out[k] = y_out_evaluated[k]
           /\ RLess(self.min_val, y_out[k])

\* C16 as stated: every output value of an input interval without an
\* evaluated value below min_val is returned identical to the evaluated value
C16_UncorrectedIntervalsIdentical ==
    ReturnedAdjusted =>
        \A k \in 1..Len(y_out) :
            NoneBelowInIntervalOf(y_out_evaluated, k) => y_out[k] = y_out_evaluated[k]


\* the output positions of input interval group (counted from 0), in order
PositionsOf(group) == IntervalIndexer(y_out_group_index, group)

\* the input intervals (counted from 0) that have a value below min_val after
\* the values close to min_val were set to min_val, in ascending order
IntervalsStillBelow ==
    SelectSeq([g \in 1..Len(y_in) |-> g - 1],
              LAMBDA g : \E k \in 1..Len(y_out_evaluated) :
                            /\ y_out_group_index[k] = g
                            /\ RLess(SnappedEvaluation[k], self.min_val))

\* what call c of the applier has to be handed: the snapped values and the
\* output bounds of its interval only, the two input bounds and the input
\* mean of the interval, and the wall control-point values at its boundaries
ExpectedArguments(c) ==
    [starting_values |-> [k \in 1..Len(PositionsOf(c.group)) |->
                              SnappedEvaluation[PositionsOf(c.group)[k]]],
     x_bounds_out |-> [k \in 1..(Len(PositionsOf(c.group)) + 1) |->
                          x_bounds_out[PositionsOf(c.group)[1] + k - 1]],
     x_bounds_in |-> <<args.x_bounds_in[c.group + 1], args.x_bounds_in[c.group + 2]>>,
     y_in |-> <<y_in[c.group + 1]>>,
     left_bound_val |-> GetItem(control_points_wall_y, R(c.group + 1)),
     right_bound_val |-> GetItem(control_points_wall_y, R(c.group + 2)),
     min_val |-> self.min_val]

\* C17: once lower_bound_adjustment has set the values within atol and rtol of
\* min_val to min_val, the applier is called once for each input interval that
\* still has a value below min_val, in ascending order and for no other
\* interval; each call is handed the values and bounds of that interval
\* only, its two input bounds, its input mean and the wall control-point
\* values at its two boundaries, and its result is written to the positions
\* of that interval
C17_ApplierInvocation ==
    (pc \in {"lba_loop", "done"} /\ InTrace("lower_bound_adjustment")
        /\ outcome \in {"running", "returned"}) =>
        /\ applier_calls \o [k \in 1..Len(iterh) |-> [group |-> iterh[k]]]
               = [k \in 1..Len(IntervalsStillBelow) |->
                     IF k <= Len(applier_calls) THEN applier_calls[k]
                     ELSE [group |-> IntervalsStillBelow[k]]]
        /\ \A c \in 1..Len(applier_calls) :
               /\ applier_calls[c].group = IntervalsStillBelow[c]
               /\ applier_calls[c].arguments = ExpectedArguments(applier_calls[c])
               /\ \A k \in 1..Len(PositionsOf(applier_calls[c].group)) :
                      y_out[PositionsOf(applier_calls[c].group)[k]]
                          = applier_calls[c].result[k]
        /\ \A k \in 1..Len(y_out) :
               (\A c \in 1..Len(applier_calls) :
                    y_out_group_index[k] # applier_calls[c].group)
                   => y_out[k] = SnappedEvaluation[k]

\* C17 happens: a call returned after the applier was called, while a value
\* of an interval it was not called for had been set to min_val
C17_Witness ==
    /\ ReturnedAdjusted
    /\ applier_calls # <<>>
    /\ \E k \in 1..Len(y_out) :
           /\ y_out_evaluated[k] # self.min_val
           /\ SnappedEvaluation[k] = self.min_val
           /\ \A c \in 1..Len(applier_calls) : y_out_group_index[k] # applier_calls[c].group


(***************************************************************************)
(* Properties of the solved control points                                 *)
(***************************************************************************)
\* the control point at the middle of interval j; j = 0 and j = N + 1 are the
\* extrapolated intervals on either side
MidControlPoint(j) == GetItem(control_points_y, RAdd(R(j), Half))

\* the equation of interval j holds for the solved control points
IntervalEquationHolds(j) ==
    RAdd(RAdd(RAdd(RMul(<<-1, 24>>, MidControlPoint(j - 1)),
                   RMul(<<13, 12>>, MidControlPoint(j))),
              RAdd(RMul(<<-1, 24>>, MidControlPoint(j + 1)),
                   RMul(Half, GetItem(control_points_wall_y, R(j))))),
         RMul(Half, GetItem(control_points_wall_y, R(j + 1))))
        = RDiv(RMul(x_step, y_in[j]), delta)

\* for two or more input intervals the solved control points satisfy the
\* equation of every interval
LinearSystemFromTwoIntervals ==
    (control_points_y # None /\ n_lai_kaplan >= 2) =>
        \A j \in 1..n_lai_kaplan : IntervalEquationHolds(j)

\* C18: for every number of input intervals, one included, and every interval
\* j the solved control points u and the wall values w satisfy
\* -1/24 u[j-1] + 13/12 u[j] - 1/24 u[j+1] + 1/2 w[j] + 1/2 w[j+1]
\* = x_step y_in[j] / delta, u[0] and u[N+1] being the extrapolated values
C18_LinearSystem ==
    control_points_y # None =>
        /\ CoefficientsA = << <<-1, 24>>, <<13, 12>>, <<-1, 24>> >>
        /\ CoefficientsBeta = <<Half, Half>>
        /\ \A j \in 1..n_lai_kaplan : IntervalEquationHolds(j)


(***************************************************************************)
(* Properties of the gradients and the patches                             *)
(***************************************************************************)
\* the derivative of a polynomial
PolyDeriv(p) == [k \in 1..(Len(p) - 1) |-> RMul(R(k), p[k + 1])]

\* the slope dy/dx of patch f at u = (x - x_i) / delta
PatchSlope(f, u) ==
    RDiv(RAdd(RAdd(RMul(f.s_i, PolyCall(PolyDeriv(HERMITE_CUBICS(0, 0)), u)),
                   RMul(RMul(f.delta, f.m_i), PolyCall(PolyDeriv(HERMITE_CUBICS(1, 0)), u))),
              RAdd(RMul(f.s_i_plus_half, PolyCall(PolyDeriv(HERMITE_CUBICS(0, 1)), u)),
                   RMul(RMul(f.delta, f.m_i_plus_half),
                        PolyCall(PolyDeriv(HERMITE_CUBICS(1, 1)), u)))),
         f.delta)

\* C19: the gradient at every control point i in 1, 3/2, ..., N + 1 is
\* (y[i + 1/2] - y[i - 1/2]) / (2 delta), y being the assembled control
\* points, and a patch and the patch that follows it have the same value and
\* the same slope at the control point they share
C19_GradientsAndContinuity ==
    [][ /\ gradients_at_control_points' # None =>
               \A i2 \in 2..(2 * Len(y_in') + 2) :
                   GetItem(gradients_at_control_points', Norm(i2, 2))
                       = RDiv(RSub(GetItem(control_points_y', Norm(i2 + 1, 2)),
                                   GetItem(control_points_y', Norm(i2 - 1, 2))),
                              RMul(R(2), delta'))
        /\ (lai_kaplan_f # None /\ lai_kaplan_f' # None /\ lai_kaplan_f' # lai_kaplan_f) =>
               /\ lai_kaplan_f'.x_i = RAdd(lai_kaplan_f.x_i, lai_kaplan_f.delta)
               /\ calculate_u(lai_kaplan_f', Zero) = calculate_u(lai_kaplan_f, R(1))
               /\ PatchSlope(lai_kaplan_f', Zero) = PatchSlope(lai_kaplan_f, R(1))
      ]_vars

\* C19 happens: the evaluation has moved on to the patch that starts at
\* control point 2, a patch whose value and slope change from end to end
C19_Witness ==
    /\ pc = "eval_loop"
    /\ lai_kaplan_f # None
    /\ lai_kaplan_interval_idx = R(2)
    /\ lai_kaplan_f.s_i # lai_kaplan_f.s_i_plus_half
    /\ lai_kaplan_f.m_i # lai_kaplan_f.m_i_plus_half
    /\ lai_kaplan_f.m_i # Zero


(***************************************************************************)
(* Properties of the evaluation loop                                       *)
(***************************************************************************)
\* x_bounds_out increases strictly, starts at the first and ends at the last
\* input boundary, and contains every input boundary and every mid-point
WalkableGrid ==
    /\ \A k \in 1..(Len(x_bounds_out) - 1) : RLess(x_bounds_out[k], x_bounds_out[k + 1])
    /\ x_bounds_out[1] = args.x_bounds_in[1]
    /\ x_bounds_out[Len(x_bounds_out)] = args.x_bounds_in[Len(args.x_bounds_in)]
    /\ Refinement(x_bounds_out, args.x_bounds_in)
    /\ Refinement(x_bounds_out, IntervalsInternalX(args.x_bounds_in))

\* C20: from one output interval to the next the patch index stays or grows
\* by one half; for a strictly increasing x_bounds_out from the first to the
\* last input boundary that contains every input boundary and mid-point, no
\* pass of the loop raises, every output interval lies within the
\* half-interval of the patch it is integrated with, the first patch is
\* patch 1 and the last is patch N + 1/2
C20_EvaluationWalk ==
    [][ (pc = "eval_loop" /\ out_index < Len(x_bounds_out) - 1) =>
          /\ lai_kaplan_interval_idx' \in
                 {lai_kaplan_interval_idx, RAdd(lai_kaplan_interval_idx, Half)}
          /\ WalkableGrid =>
                 /\ outcome' = "running"
                 /\ out_index' = out_index + 1
                 /\ lai_kaplan_f' = PatchAt(lai_kaplan_interval_idx')
                 /\ RLeq(GetItem(control_points_x, lai_kaplan_interval_idx'),
                         x_bounds_out[out_index + 1])
                 /\ RLeq(x_bounds_out[out_index + 2],
                         GetItem(control_points_x, RAdd(lai_kaplan_interval_idx', Half)))
                 /\ out_index = 0 => lai_kaplan_interval_idx' = R(1)
                 /\ out_index' = Len(x_bounds_out) - 1 =>
                        lai_kaplan_interval_idx' = RAdd(R(Len(y_in)), Half)
      ]_vars

\* C20 happens: the loop has walked a grid finer than the half-intervals over
\* two or more input intervals, to the last patch
C20_Witness ==
    /\ pc = "eval_loop"
    /\ WalkableGrid
    /\ Len(y_in) >= 2
    /\ Len(x_bounds_out) > 2 * Len(y_in) + 1
    /\ out_index = Len(x_bounds_out) - 1
    /\ lai_kaplan_interval_idx = RAdd(R(Len(y_in)), Half)
    /\ y_out[1] # y_out[Len(y_out)]

(***************************************************************************)
(* Properties of the group aggregations                                    *)
(***************************************************************************)
\* s is strictly increasing
StrictlyIncreasing(s) == \A k \in 1..(Len(s) - 1) : RLess(s[k], s[k + 1])

\* the fine interval k of x_bounds lies between lo and hi
FineIntervalWithin(x_bounds, k, lo, hi) == RLeq(lo, x_bounds[k]) /\ RLeq(x_bounds[k + 1], hi)

\* the reference: the sum of vals over the fine intervals between lo and hi
ReferenceSum(x_bounds, vals, lo, hi) ==
    RSum(Strict([k \in 1..Len(vals) |->
        IF FineIntervalWithin(x_bounds, k, lo, hi) THEN vals[k] ELSE Zero]))

\* the reference: the same sum with every value weighted by its interval width
ReferenceIntegral(x_bounds, vals, lo, hi) ==
    RSum(Strict([k \in 1..Len(vals) |->
        IF FineIntervalWithin(x_bounds, k, lo, hi)
        THEN RMul(RSub(x_bounds[k + 1], x_bounds[k]), vals[k]) ELSE Zero]))

\* the reference value of group g for the utility that was called
ReferenceOfGroup(utility, g) ==
    IF utility = "get_group_sums"
    THEN ReferenceSum(args.x_bounds, args.vals, args.group_bounds[g], args.group_bounds[g + 1])
    ELSE IF utility = "get_group_integrals"
    THEN ReferenceIntegral(args.x_bounds, args.vals, args.group_bounds[g],
                           args.group_bounds[g + 1])
    ELSE RDiv(ReferenceIntegral(args.x_bounds, args.vals, args.group_bounds[g],
                                args.group_bounds[g + 1]),
              RSub(args.group_bounds[g + 1], args.group_bounds[g]))

\* an aggregation was called with strictly increasing group bounds that all
\* occur in x_bounds and that define at least one group
AggregationCalled ==
    /\ Done
    /\ Len(args.group_bounds) >= 2
    /\ trace \in { <<"get_group_sums">>, <<"get_group_integrals">>, <<"get_group_averages">> }
    /\ StrictlyIncreasing(args.x_bounds)
    /\ StrictlyIncreasing(args.group_bounds)
    /\ ~AbsentGroupBound

\* the call returned one reference value per group
ReturnedReference ==
    /\ outcome = "returned"
    /\ Len(y_out) = Len(args.group_bounds) - 1
    /\ \A g \in 1..(Len(args.group_bounds) - 1) : y_out[g] = ReferenceOfGroup(trace[1], g)

\* C21: for strictly increasing group bounds that all occur in x_bounds,
\* whether or not the first of them is x_bounds[0], get_group_sums returns
\* len(group_bounds) - 1 values, the sums of vals over the fine intervals of
\* each group, get_group_integrals the width-weighted sums and
\* get_group_averages the integrals divided by the group widths
C21_GroupAggregation == AggregationCalled => ReturnedReference

\* the same for group bounds of which the first is x_bounds[0]
GroupAggregationFromFirstBound ==
    (AggregationCalled /\ args.group_bounds[1] = args.x_bounds[1]) => ReturnedReference

\* C21 happens: the integrals of three or more groups over a grid whose
\* intervals do not all have the same width were returned
GroupAggregationWitness ==
    /\ AggregationCalled
    /\ trace = <<"get_group_integrals">>
    /\ Len(args.group_bounds) >= 4
    /\ RSub(args.x_bounds[2], args.x_bounds[1]) # RSub(args.x_bounds[3], args.x_bounds[2])
    /\ args.vals[1] # args.vals[2]
    /\ ReturnedReference

(***************************************************************************)
(* Properties of get_group_boundary_indexes                                *)
(***************************************************************************)
\* get_group_boundary_indexes was called with group bounds that all occur in
\* x_bounds
BoundaryIndexesCalled ==
    /\ Done
    /\ trace = <<"get_group_boundary_indexes">>
    /\ ~AbsentGroupBound

\* one index per element of group_bounds, in the order of group_bounds
IndexPerGroupBound ==
    /\ outcome = "returned"
    /\ Len(y_out) = Len(args.group_bounds)
    /\ \A k \in 1..Len(args.group_bounds) : args.x_bounds[y_out[k] + 1] = args.group_bounds[k]

\* the indexes of the boundaries of x_bounds whose value occurs in
\* group_bounds, each once, in ascending order
IndexesOfSharedBoundaries ==
    /\ outcome = "returned"
    /\ \A k \in 1..(Len(y_out) - 1) : y_out[k] < y_out[k + 1]
    /\ { y_out[k] : k \in 1..Len(y_out) } =
           { i \in 0..(Len(args.x_bounds) - 1) :
               \E k \in 1..Len(args.group_bounds) : args.x_bounds[i + 1] = args.group_bounds[k] }

\* C22 as stated: for any group_bounds all of whose values occur in x_bounds,
\* repeated or unsorted values included, get_group_boundary_indexes returns
\* one index per element of group_bounds, the k-th being the position of
\* group_bounds[k] in x_bounds
C22_IndexPerGroupBoundInOrder == BoundaryIndexesCalled => IndexPerGroupBound

\* C22: get_group_boundary_indexes returns, once each and in ascending order,
\* the indexes of the boundaries of x_bounds whose value occurs in
\* group_bounds; for strictly increasing group_bounds this is one index per
\* element of group_bounds, the k-th being the position of group_bounds[k]
C22_BoundaryIndexesInGridOrder ==
    BoundaryIndexesCalled =>
        /\ IndexesOfSharedBoundaries
        /\ StrictlyIncreasing(args.group_bounds) => IndexPerGroupBound

\* C22 happens: the indexes of three or more strictly increasing group bounds
\* were returned, and they are not all the boundaries of x_bounds
C22_Witness ==
    /\ BoundaryIndexesCalled
    /\ StrictlyIncreasing(args.group_bounds)
    /\ Len(args.group_bounds) >= 3
    /\ Len(args.group_bounds) < Len(args.x_bounds)
    /\ IndexPerGroupBound

(***************************************************************************)
(* Properties of get_group_indexes and get_number_elements_per_group       *)
(***************************************************************************)
\* the fine intervals of x_bounds (numbered from 0) that start in group g
\* (numbered from 0): group_bounds[g] <= x_bounds[i] < group_bounds[g+1]
FineIntervalsOfGroup(g) ==
    { i \in 0..(Len(args.x_bounds) - 2) :
        /\ RLeq(args.group_bounds[g + 1], args.x_bounds[i + 1])
        /\ RLess(args.x_bounds[i + 1], args.group_bounds[g + 2]) }

\* the groups (numbered from 0)
GroupNumbers == 0..(Len(args.group_bounds) - 2)

\* the utility named was called with strictly increasing x_bounds and
\* strictly increasing group_bounds that all occur in x_bounds
MappingCalled(utility) ==
    /\ Done
    /\ trace = <<utility>>
    /\ StrictlyIncreasing(args.x_bounds)
    /\ StrictlyIncreasing(args.group_bounds)
    /\ ~AbsentGroupBound

\* C23: for strictly increasing x_bounds and strictly increasing group_bounds
\* contained in x_bounds, get_group_indexes gives every fine interval the one
\* group it starts in and -1 to a fine interval outside all groups; the
\* number of fine intervals given to a group is what
\* get_number_elements_per_group returns for it, the difference of the
\* consecutive boundary indexes
C23_FineIntervalToGroup ==
    /\ MappingCalled("get_group_indexes") =>
          /\ outcome = "returned"
          /\ Len(y_out) = Len(args.x_bounds) - 1
          /\ \A i \in 0..(Len(args.x_bounds) - 2) :
                /\ \A g \in GroupNumbers : (y_out[i + 1] = g) <=> (i \in FineIntervalsOfGroup(g))
                /\ (y_out[i + 1] = -1) <=> (\A g \in GroupNumbers : i \notin FineIntervalsOfGroup(g))
                /\ y_out[i + 1] \in GroupNumbers \cup {-1}
          /\ \A g \in GroupNumbers :
                Cardinality({ i \in 0..(Len(args.x_bounds) - 2) : y_out[i + 1] = g }) =
                    get_number_elements_per_group(args.x_bounds, args.group_bounds)[g + 1]
    /\ MappingCalled("get_number_elements_per_group") =>
          /\ outcome = "returned"
          /\ Len(y_out) = Cardinality(GroupNumbers)
          /\ \A g \in GroupNumbers :
                /\ y_out[g + 1] = Cardinality(FineIntervalsOfGroup(g))
                /\ y_out[g + 1] =
                       get_group_boundary_indexes(args.x_bounds, args.group_bounds)[g + 2] -
                       get_group_boundary_indexes(args.x_bounds, args.group_bounds)[g + 1]

\* C23 happens: get_group_indexes returned for three or more groups of two
\* fine intervals each
C23_Witness ==
    /\ MappingCalled("get_group_indexes")
    /\ Len(args.group_bounds) >= 4
    /\ Len(y_out) = 2 * (Len(args.group_bounds) - 1)
    /\ y_out[1] = 0 /\ y_out[2] = 0 /\ y_out[3] = 1 /\ y_out[Len(y_out)] = Len(args.group_bounds) - 2

\* a fine interval outside all groups got -1
OutsideAllGroupsReached ==
    /\ MappingCalled("get_group_indexes")
    /\ Len(args.group_bounds) = 2
    /\ y_out[1] = -1 /\ y_out[2] = 0 /\ y_out[Len(y_out)] = -1 /\ Len(y_out) >= 4

(***************************************************************************)
(* Properties of the aggregations for an empty group                       *)
(***************************************************************************)
\* two consecutive group bounds are the same boundary of x_bounds: the group
\* between them has no fine interval
EmptyGroup ==
    \E k \in 1..(Len(args.group_bounds) - 1) : args.group_bounds[k] = args.group_bounds[k + 1]

\* an aggregation was called with group bounds that all occur in x_bounds
\* and that define an empty group
AggregationOfEmptyGroup ==
    /\ Done
    /\ trace \in { <<"get_group_sums">>, <<"get_group_integrals">>, <<"get_group_averages">> }
    /\ StrictlyIncreasing(args.x_bounds)
    /\ ~AbsentGroupBound
    /\ EmptyGroup

\* C24: when group_bounds defines a group without any fine interval,
\* get_group_sums, get_group_integrals and get_group_averages raise an error
\* and return no result
C24_EmptyGroupRaises ==
    AggregationOfEmptyGroup => outcome # "returned" /\ y_out = None

\* what the aggregations do for an empty group: they return, the sums and
\* integrals with fewer values than there are groups, the averages with a
\* value that is not finite for the empty group
EmptyGroupReturned ==
    AggregationOfEmptyGroup =>
        /\ outcome = "returned"
        /\ trace # <<"get_group_averages">> => Len(y_out) < Len(args.group_bounds) - 1
        /\ trace = <<"get_group_averages">> =>
              \E k \in 1..Len(y_out) :
                  /\ args.group_bounds[k] = args.group_bounds[k + 1]
                  /\ y_out[k][2] = 0

(***************************************************************************)
(* Properties of the flat-override wall policy inside a call               *)
(***************************************************************************)
\* the wall values were computed by the flat-override policy in a call with
\* constant extrapolation on the left
FlatOverrideWallsComputed ==
    /\ self.extrapolate_left = CONSTANT_HANDLING
    /\ self.get_wall_control_points_y_from_interval_ys = WALL_FLAT
    /\ InTrace("walls")
    /\ control_points_wall_y # None

\* the wall values the plain linear policy gives for the same call
LinearWallValues ==
    get_wall_control_points_y_linear(
        IntervalsX(args.x_bounds_in),
        <<external_intervals_y_d[1]>> \o y_in \o <<external_intervals_y_d[2]>>,
        args.x_bounds_in)

\* the linear wall values with the wall at the end of the initial run of
\* equal input means (numpy index FlatRun(y_in)) set to the first input mean
LinearWallValuesWithOverride ==
    [LinearWallValues EXCEPT ![FlatRun(y_in) + 1] = y_in[1]]

\* C25: with constant extrapolation on the left, the flat-override policy
\* gives the wall values of the linear policy, except that the wall at the
\* end of the initial run is set to the flat value if and only if y_in begins
\* with two or more equal values followed by a different one; when the first
\* two input means differ, or when all values are equal, the result is that
\* of the linear policy
C25_FlatOverrideOnlyAfterFlatStart ==
    FlatOverrideWallsComputed =>
        control_points_wall_y.data =
            IF FlatRun(y_in) >= 2 /\ FlatRun(y_in) < Len(y_in)
            THEN LinearWallValuesWithOverride
            ELSE LinearWallValues

\* what the policy does: the wall at the end of the initial run is set to the
\* first input mean whenever some later input mean differs from the first,
\* also when the run is the first interval alone
FlatOverrideAtFirstChange ==
    FlatOverrideWallsComputed =>
        control_points_wall_y.data =
            IF FlatRun(y_in) < Len(y_in)
            THEN LinearWallValuesWithOverride
            ELSE LinearWallValues

\* the policy changed the wall between two input means that differ
OverrideWithoutFlatStartReached ==
    /\ FlatOverrideWallsComputed
    /\ Len(y_in) >= 2
    /\ y_in[1] # y_in[2]
    /\ control_points_wall_y.data # LinearWallValues
    /\ control_points_wall_y.data[2] = y_in[1]

\* the policy changed the wall at the end of a flat start of two intervals
OverrideAfterFlatStartReached ==
    /\ FlatOverrideWallsComputed
    /\ FlatRun(y_in) = 2 /\ Len(y_in) = 3
    /\ control_points_wall_y.data # LinearWallValues
    /\ control_points_wall_y.data[3] = y_in[1]

(***************************************************************************)
(* One method of a LaiKaplanF called on its own: self is the patch, args   *)
(* the arguments of the call, y_out the value returned                     *)
(***************************************************************************)
\* the patches tried
PatchSet ==
    { LaiKaplanF(x_i_, delta_, s_i_, s_h, m_i_, m_h) :
        x_i_ \in {R(0), R(2)}, delta_ \in {Half, R(2)}, s_i_ \in {R(0), R(3)},
        s_h \in {R(1), R(-2)}, m_i_ \in {R(-1), R(2)}, m_h \in {R(0), R(3)} }

\* the x values tried for a patch: one on either side of its domain, its two
\* ends, and two values inside
PatchPoints(f) ==
    { RSub(f.x_i, R(1)), f.x_i, RAdd(f.x_i, RDiv(f.delta, R(3))),
      RAdd(f.x_i, RDiv(f.delta, R(2))), RAdd(f.x_i, f.delta),
      RAdd(RAdd(f.x_i, f.delta), R(1)) }

\* the units of the patch's x and y values
PatchXUnits == "yr"
PatchYUnits == "ppm"

PatchInit ==
    /\ self \in PatchSet
    /\ args \in [x_lower : PatchPoints(self), x_upper : PatchPoints(self),
                 check_domain : BOOLEAN]
    /\ pc = "call"
    /\ outcome = "running"
    /\ trace = <<>>
    /\ warnings = <<>>
    /\ y_in = None
    /\ x_bounds_out = None
    /\ x_step = None /\ delta = None
    /\ control_points_x = None
    /\ external_intervals_y_d = None
    /\ control_points_wall_y = None
    /\ control_points_y = None
    /\ gradients_at_control_points = None
    /\ out_index = 0
    /\ lai_kaplan_interval_idx = None
    /\ x_i = None
    /\ lai_kaplan_f = None
    /\ y_out = None
    /\ y_out_evaluated = None
    /\ below_min_in_group = None
    /\ y_out_group_index = None
    /\ iterh = None
    /\ applier_calls = <<>>
    /\ earlier_result = None

\* LaiKaplanF.calculate(x=args.x_lower, check_domain): lines 248-255
CallCalculate ==
    GroupingCallEnds("calculate",
        IF args.check_domain /\ OutsideDomain(self, args.x_lower) THEN ErrValue ELSE NoError,
        calculate_u(self, RDiv(RSub(args.x_lower, self.x_i), self.delta)))

\* LaiKaplanF.calculate_integral_definite: lines 375-384
CallCalculateIntegralDefinite ==
    GroupingCallEnds("calculate_integral_definite",
        IF IntegralDefiniteRaises(self, args.x_lower, args.x_upper, args.check_domain)
        THEN ErrValue ELSE NoError,
        Quantity(RSub(calculate_integral_indefinite(self, args.x_upper,
                                                    PatchXUnits, PatchYUnits).m,
                      calculate_integral_indefinite(self, args.x_lower,
                                                    PatchXUnits, PatchYUnits).m),
                 calculate_integral_indefinite(self, args.x_upper, PatchXUnits, PatchYUnits).u))

\* LaiKaplanF.calculate_integral_definite_unitless: lines 414-425
CallCalculateIntegralDefiniteUnitless ==
    GroupingCallEnds("calculate_integral_definite_unitless",
        IF IntegralDefiniteRaises(self, args.x_lower, args.x_upper, args.check_domain)
        THEN ErrValue ELSE NoError,
        calculate_integral_definite_unitless(self, args.x_lower, args.x_upper))

PatchNext ==
    \/ CallCalculate
    \/ CallCalculateIntegralDefinite
    \/ CallCalculateIntegralDefiniteUnitless

PatchSpec == PatchInit /\ [][PatchNext]_vars

(***************************************************************************)
(* Properties of the definite integral of a patch                          *)
(***************************************************************************)
\* the antiderivative of the patch: its values weighted by the integrated
\* basis polynomials, in x
PatchAntiderivative(f, x) ==
    RMul(f.delta,
         RAdd(RAdd(RMul(f.s_i, PolyCall(PolyInteg(HERMITE_CUBICS(0, 0)),
                                        RDiv(RSub(x, f.x_i), f.delta))),
                   RMul(RMul(f.delta, f.m_i), PolyCall(PolyInteg(HERMITE_CUBICS(1, 0)),
                                                       RDiv(RSub(x, f.x_i), f.delta)))),
              RAdd(RMul(f.s_i_plus_half, PolyCall(PolyInteg(HERMITE_CUBICS(0, 1)),
                                                  RDiv(RSub(x, f.x_i), f.delta))),
                   RMul(RMul(f.delta, f.m_i_plus_half),
                        PolyCall(PolyInteg(HERMITE_CUBICS(1, 1)),
                                 RDiv(RSub(x, f.x_i), f.delta))))))

\* x lies in [x_i, x_i + delta]
InPatchDomain(f, x) == RLeq(f.x_i, x) /\ RLeq(x, RAdd(f.x_i, f.delta))

\* the magnitude of what a definite integral returned
ReturnedMagnitude ==
    IF trace = <<"calculate_integral_definite">> THEN y_out.m ELSE y_out

\* one of the two definite integrals was called
DefiniteIntegralCalled ==
    /\ Done
    /\ trace \in { <<"calculate_integral_definite">>,
                   <<"calculate_integral_definite_unitless">> }

\* C26: calculate_integral_definite and calculate_integral_definite_unitless
\* raise ValueError whenever x_lower >= x_upper, with domain checking on or
\* off, and, with domain checking on, whenever x_lower or x_upper lies outside
\* [x_i, x_i + delta]; otherwise they return F(x_upper) - F(x_lower) for the
\* antiderivative F of the patch, so that the integrals over [a, b] and
\* [b, c] add up to the integral over [a, c], and the unitless variant
\* returns the magnitude of the unit-aware variant
C26_DefiniteIntegral ==
    DefiniteIntegralCalled =>
        IF \/ RLeq(args.x_upper, args.x_lower)
           \/ args.check_domain /\ ~(InPatchDomain(self, args.x_lower) /\
                                     InPatchDomain(self, args.x_upper))
        THEN outcome = ErrValue /\ y_out = None
        ELSE /\ outcome = "returned"
             /\ ReturnedMagnitude = RSub(PatchAntiderivative(self, args.x_upper),
                                         PatchAntiderivative(self, args.x_lower))
             /\ \A b \in PatchPoints(self) :
                   (RLess(args.x_lower, b) /\ RLess(b, args.x_upper)) =>
                       ReturnedMagnitude =
                           RAdd(calculate_integral_definite_unitless(self, args.x_lower, b),
                                calculate_integral_definite_unitless(self, b, args.x_upper))
             /\ ReturnedMagnitude =
                    calculate_integral_definite_unitless(self, args.x_lower, args.x_upper)
             /\ trace = <<"calculate_integral_definite">> =>
                    y_out.u = <<PatchXUnits, PatchYUnits>>

\* C26 happens: the unit-aware integral over the whole patch, which has a
\* point in between, was returned with domain checking on
C26_Witness ==
    /\ DefiniteIntegralCalled
    /\ trace = <<"calculate_integral_definite">>
    /\ args.check_domain
    /\ args.x_lower = self.x_i
    /\ args.x_upper = RAdd(self.x_i, self.delta)
    /\ outcome = "returned"
    /\ y_out.m # Zero

\* a definite integral raised for x_lower = x_upper with domain checking off
EmptyRangeRaisedReached ==
    /\ DefiniteIntegralCalled
    /\ ~args.check_domain
    /\ args.x_lower = args.x_upper
    /\ outcome = ErrValue

\* a definite integral raised with domain checking on for an x_upper beyond
\* the patch
OutsideDomainRaisedReached ==
    /\ DefiniteIntegralCalled
    /\ args.check_domain
    /\ RLess(args.x_lower, args.x_upper)
    /\ InPatchDomain(self, args.x_lower)
    /\ ~InPatchDomain(self, args.x_upper)
    /\ outcome = ErrValue

(***************************************************************************)
(* Properties of a patch at its two ends                                   *)
(***************************************************************************)
\* the right-hand end of the patch
PatchEnd(f) == RAdd(f.x_i, f.delta)

\* delta (s_i + s_i_plus_half) / 2 + delta^2 (m_i - m_i_plus_half) / 12
WholePatchIntegral(f) ==
    RAdd(RDiv(RMul(f.delta, RAdd(f.s_i, f.s_i_plus_half)), R(2)),
         RDiv(RMul(RMul(f.delta, f.delta), RSub(f.m_i, f.m_i_plus_half)), R(12)))

\* C27: the value of a patch evaluated at x_i is s_i, at x_i + delta it is
\* s_i_plus_half; its derivative at the two ends is m_i and m_i_plus_half;
\* its definite integral over the whole patch is
\* delta (s_i + s_i_plus_half) / 2 + delta^2 (m_i - m_i_plus_half) / 12
C27_PatchEnds ==
    /\ (Done /\ trace = <<"calculate">> /\ args.x_lower = self.x_i) =>
           outcome = "returned" /\ y_out = self.s_i
    /\ (Done /\ trace = <<"calculate">> /\ args.x_lower = PatchEnd(self)) =>
           outcome = "returned" /\ y_out = self.s_i_plus_half
    /\ (Done /\ trace = <<"calculate">>) =>
           /\ PatchSlope(self, Zero) = self.m_i
           /\ PatchSlope(self, R(1)) = self.m_i_plus_half
    /\ (DefiniteIntegralCalled /\ args.x_lower = self.x_i /\ args.x_upper = PatchEnd(self)) =>
           outcome = "returned" /\ ReturnedMagnitude = WholePatchIntegral(self)

\* C27 happens: a patch with two different end values and two different,
\* non-zero end gradients was evaluated at its right-hand end
C27_Witness ==
    /\ Done
    /\ trace = <<"calculate">>
    /\ args.x_lower = PatchEnd(self)
    /\ args.check_domain
    /\ self.m_i # self.m_i_plus_half /\ self.m_i_plus_half # Zero
    /\ self.delta # R(1)
    /\ y_out = self.s_i_plus_half /\ y_out # self.s_i

\* the integral over a whole patch with different end gradients was returned
WholePatchIntegralReached ==
    /\ DefiniteIntegralCalled
    /\ args.x_lower = self.x_i /\ args.x_upper = PatchEnd(self)
    /\ self.m_i # self.m_i_plus_half
    /\ outcome = "returned"
    /\ ReturnedMagnitude = WholePatchIntegral(self)

(***************************************************************************)
(* A call on integer input means followed by the call of the same          *)
(* interpolator on the numerically equal floating-point input means        *)
(***************************************************************************)
CallWithFloat ==
    /\ pc = "done"
    /\ earlier_result = None
    /\ args.y_dtype = "int"
    /\ args' = [args EXCEPT !.y_in = AsFloat(args.y_in), !.y_dtype = "float"]
    /\ earlier_result' = [outcome |-> outcome, y_out |-> y_out, applier_calls |-> applier_calls]
    /\ pc' = "dtype"
    /\ outcome' = "running"
    /\ trace' = <<>>
    /\ y_in' = AsFloat(args.y_in)
    /\ x_bounds_out' = args.x_bounds_out
    /\ x_step' = None /\ delta' = None
    /\ control_points_x' = None
    /\ external_intervals_y_d' = None
    /\ control_points_wall_y' = None
    /\ control_points_y' = None
    /\ gradients_at_control_points' = None
    /\ out_index' = 0
    /\ lai_kaplan_interval_idx' = None
    /\ x_i' = None
    /\ lai_kaplan_f' = None
    /\ y_out' = None
    /\ y_out_evaluated' = None
    /\ below_min_in_group' = None
    /\ y_out_group_index' = None
    /\ iterh' = None
    /\ applier_calls' = <<>>
    /\ UNCHANGED <<self, warnings>>

DtypeNext ==
    \/ Next
    \/ CallWithFloat

DtypeInit ==
    /\ Init
    /\ args.y_dtype = "int"

DtypeSpec == DtypeInit /\ [][DtypeNext]_vars

(***************************************************************************)
(* Properties of a call on integer input means                             *)
(***************************************************************************)
\* the call on the integer input means is under way or has ended
IntegerCall == earlier_result = None /\ args.y_dtype = "int" /\ trace # <<>>

\* the call on the floating-point input means has ended
FloatCallEnded == pc = "done" /\ earlier_result # None /\ args.y_dtype = "float"

\* C28: a call on integer input means emits a warning, converts the means to
\* floating point as its first step and does not fail in that step; it ends
\* as the call on the numerically equal floating-point means ends, with the
\* same outcome and the same output (wherever the applier gave the same
\* values for the same arguments), none of it truncated to an integer
C28_IntegerInput ==
    /\ IntegerCall =>
           /\ trace[1] = "dtype"
           /\ warnings # <<>>
           /\ Len(y_in) = Len(args.y_in)
           /\ \A k \in 1..Len(y_in) : y_in[k] = <<args.y_in[k][1], 1>>
           /\ trace = <<"dtype">> => outcome = "running"
           /\ (pc = "done" /\ outcome = "returned") =>
                  \A k \in 1..Len(y_out) : Len(y_out[k]) = 2
    /\ FloatCallEnded =>
           /\ outcome = earlier_result.outcome
           /\ SameApplierArguments(applier_calls, earlier_result.applier_calls)
           /\ applier_calls = earlier_result.applier_calls => y_out = earlier_result.y_out

\* C28 happens: the call on integer means returned values that are not all
\* whole numbers, and the call on the floating-point means returned the same
C28_Witness ==
    /\ FloatCallEnded
    /\ outcome = "returned"
    /\ earlier_result.outcome = "returned"
    /\ y_out = earlier_result.y_out
    /\ \E k \in 1..Len(y_out) : y_out[k][2] # 1
    /\ warnings # <<>>

(***************************************************************************)
(* Two scenarios that share their input means up to an overlap interval,   *)
(* interpolated one after the other with the stitch policy of the          *)
(* notebook: args.stitched holds the two series, args.overlap the number   *)
(* of the overlap interval                                                 *)
(***************************************************************************)
\* the most input intervals of a stitched series
MaxStitchN == 3

\* pairs of series of n means that agree on the first k of them
\* (series of more than three means are tried with constant means, which
\* keeps the exact arithmetic within the range of the integers)
StitchedSet(n, k) ==
    { <<RSeq(ab[1]), RSeq(ab[2])>> :
        ab \in { p \in [1..n -> YVals] \X [1..n -> YVals] :
                    /\ \A i \in 1..k : p[1][i] = p[2][i]
                    /\ n > 3 => \A i \in 1..n : p[1][i] = p[1][1] /\ p[2][i] = p[1][1] } }

StitchArgsSet ==
    UNION { UNION { { [x_bounds_in |-> XBoundsIn(n, FALSE), y_in |-> st[1], y_dtype |-> "float",
                       x_bounds_out |-> FineGrid(n), stitched |-> st, overlap |-> k] :
                        st \in StitchedSet(n, k) } : k \in 1..(n - 1) } : n \in 2..MaxStitchN }

StitchInit ==
    /\ self \in { [extrapolate_left |-> CONSTANT_HANDLING,
                     extrapolate_right |-> CONSTANT_HANDLING,
                     get_wall_control_points_y_from_interval_ys |-> WALL_STITCH,
                     min_val |-> m, atol |-> Zero, rtol |-> Zero,
                     rtol_uniform_steps |-> DefaultRtolUniformSteps] : m \in {None, R(0)} }
    /\ args \in StitchArgsSet
    /\ pc = "dtype"
    /\ outcome = "running"
    /\ trace = <<>>
    /\ warnings = <<>>
    /\ y_in = args.y_in
    /\ x_bounds_out = args.x_bounds_out
    /\ x_step = None /\ delta = None
    /\ control_points_x = None
    /\ external_intervals_y_d = None
    /\ control_points_wall_y = None
    /\ control_points_y = None
    /\ gradients_at_control_points = None
    /\ out_index = 0
    /\ lai_kaplan_interval_idx = None
    /\ x_i = None
    /\ lai_kaplan_f = None
    /\ y_out = None
    /\ y_out_evaluated = None
    /\ below_min_in_group = None
    /\ y_out_group_index = None
    /\ iterh = None
    /\ applier_calls = <<>>
    /\ earlier_result = None

\* the second scenario is interpolated by the same interpolator
CallOtherScenario ==
    /\ pc = "done"
    /\ earlier_result = None
    /\ args' = [args EXCEPT !.y_in = args.stitched[2]]
    /\ earlier_result' = [outcome |-> outcome, y_out |-> y_out, applier_calls |-> applier_calls,
                          control_points_wall_y |-> control_points_wall_y]
    /\ pc' = "dtype"
    /\ outcome' = "running"
    /\ trace' = <<>>
    /\ y_in' = args.stitched[2]
    /\ x_bounds_out' = args.x_bounds_out
    /\ x_step' = None /\ delta' = None
    /\ control_points_x' = None
    /\ external_intervals_y_d' = None
    /\ control_points_wall_y' = None
    /\ control_points_y' = None
    /\ gradients_at_control_points' = None
    /\ out_index' = 0
    /\ lai_kaplan_interval_idx' = None
    /\ x_i' = None
    /\ lai_kaplan_f' = None
    /\ y_out' = None
    /\ y_out_evaluated' = None
    /\ below_min_in_group' = None
    /\ y_out_group_index' = None
    /\ iterh' = None
    /\ applier_calls' = <<>>
    /\ UNCHANGED <<self, warnings>>

StitchNext ==
    \/ Next
    \/ CallOtherScenario

StitchSpec == StitchInit /\ [][StitchNext]_vars

(***************************************************************************)
(* Properties of two stitched scenarios                                    *)
(***************************************************************************)
\* both scenarios were interpolated and returned
BothScenariosReturned ==
    /\ pc = "done"
    /\ earlier_result # None
    /\ outcome = "returned"
    /\ earlier_result.outcome = "returned"

\* the positions in y_out of the sub-intervals of the overlap interval
OverlapPositions == { 2 * args.overlap - 1, 2 * args.overlap }

\* C29: two series with the same means up to and including the overlap
\* interval, interpolated with a wall policy that fixes the same wall value
\* at the end of the overlap interval, get equal outputs on every
\* sub-interval of the overlap interval, whatever their later means are
C29_AgreementUpToStitchPoint ==
    BothScenariosReturned =>
        \A p \in OverlapPositions : y_out[p] = earlier_result.y_out[p]

\* what the fixed wall gives: in both calls the wall at the end of the
\* overlap interval has the fixed value
StitchWallAgreement ==
    BothScenariosReturned =>
        /\ GetItem(control_points_wall_y, R(args.overlap + 1)) =
               fixed_control_point(args.stitched, args.overlap)
        /\ GetItem(earlier_result.control_points_wall_y, R(args.overlap + 1)) =
               fixed_control_point(args.stitched, args.overlap)

\* two scenarios with different means after the overlap interval returned
\* different outputs on the last sub-interval of the overlap interval
StitchDisagreementReached ==
    /\ BothScenariosReturned
    /\ self.min_val = None
    /\ args.stitched[1] # args.stitched[2]
    /\ y_out[2 * args.overlap] # earlier_result.y_out[2 * args.overlap]

(***************************************************************************)
(* prefect_helpers.submit_output_aware called on its own: self is the      *)
(* task, args.kwargs maps each keyword argument that holds a path to       *)
(* whether the path exists, y_out is what was submitted                    *)
(***************************************************************************)
\* a PathHashesCP with the given parameters_output (None: not configured)
PathHashesCP(parameters_output) ==
    [kind |-> "PathHashesCP", parameters_output |-> parameters_output, policies |-> <<>>]

\* the first PathHashesCP that the cache policy is or contains (lines
\* 310-327); a policy of kind "missing" when there is none
FindPathHashesCP(cache_policy) ==
    IF cache_policy.kind = "PathHashesCP" THEN cache_policy
    ELSE IF \E k \in 1..Len(cache_policy.policies) : cache_policy.policies[k].kind = "PathHashesCP"
    THEN cache_policy.policies[CHOOSE k \in 1..Len(cache_policy.policies) :
             /\ cache_policy.policies[k].kind = "PathHashesCP"
             /\ \A j \in 1..(k - 1) : cache_policy.policies[j].kind # "PathHashesCP"]
    ELSE [kind |-> "missing", parameters_output |-> None, policies |-> <<>>]

\* the loop of lines 331-344 from the k-th output parameter on: "KeyError"
\* when it reaches a parameter that is not a keyword argument, "refresh"
\* when it reaches a path that does not exist, "unchanged" when it ends
RECURSIVE ScanOutputParameters(_, _, _)
ScanOutputParameters(parameters_output, kwargs, k) ==
    IF k > Len(parameters_output) THEN "unchanged"
    ELSE IF parameters_output[k] \notin DOMAIN kwargs THEN "KeyError"
    ELSE IF ~kwargs[parameters_output[k]] THEN "refresh"
    ELSE ScanOutputParameters(parameters_output, kwargs, k + 1)

\* the parameter names of the task that hold an output path
OutputNames == {"out_a", "out_b"}

\* the cache policies tried: a PathHashesCP, a compound policy with one, a
\* compound policy without one, a policy that is no compound
CachePolicySet ==
    LET simple(kind) == [kind |-> kind, parameters_output |-> None, policies |-> <<>>]
        compound(ps) == [kind |-> "CompoundCachePolicy", parameters_output |-> None,
                         policies |-> ps]
        phcps == { PathHashesCP(po) : po \in {None, <<"out_a">>, <<"out_a", "out_b">>,
                                               <<"out_b", "out_a">>} }
    IN  phcps
        \cup { compound(<<simple("Inputs"), simple("TaskSource"), p>>) : p \in phcps }
        \cup { compound(<<p, simple("Inputs")>>) : p \in phcps }
        \cup { compound(<<simple("Inputs"), simple("TaskSource")>>), simple("Inputs") }

\* the keyword arguments tried: any of the output names, each with a path that
\* exists or not
KwargsSet == UNION { [names -> BOOLEAN] : names \in SUBSET OutputNames }

SubmitInit ==
    /\ self \in { [name |-> "my_task", cache_policy |-> cp, refresh_cache |-> rc] :
                    cp \in CachePolicySet, rc \in BOOLEAN }
    /\ args \in { [kwargs |-> kw] : kw \in KwargsSet }
    /\ pc = "call"
    /\ outcome = "running"
    /\ trace = <<>>
    /\ warnings = <<>>
    /\ y_in = None
    /\ x_bounds_out = None
    /\ x_step = None /\ delta = None
    /\ control_points_x = None
    /\ external_intervals_y_d = None
    /\ control_points_wall_y = None
    /\ control_points_y = None
    /\ gradients_at_control_points = None
    /\ out_index = 0
    /\ lai_kaplan_interval_idx = None
    /\ x_i = None
    /\ lai_kaplan_f = None
    /\ y_out = None
    /\ y_out_evaluated = None
    /\ below_min_in_group = None
    /\ y_out_group_index = None
    /\ iterh = None
    /\ applier_calls = <<>>
    /\ earlier_result = None

\* submit_output_aware(task, **kwargs): lines 310-346
SubmitOutputAware ==
    GroupingCallEnds("submit_output_aware",
        IF FindPathHashesCP(self.cache_policy).kind = "missing" THEN "AssertionError"
        ELSE IF ScanOutputParameters(FindPathHashesCP(self.cache_policy).parameters_output,
                                     args.kwargs, 1) = "KeyError"
        THEN "KeyError"
        ELSE NoError,
        [task |-> IF ScanOutputParameters(FindPathHashesCP(self.cache_policy).parameters_output,
                                          args.kwargs, 1) = "refresh"
                  THEN [self EXCEPT !.refresh_cache = TRUE]
                  ELSE self,
         kwargs |-> args.kwargs])

SubmitNext == SubmitOutputAware

SubmitSpec == SubmitInit /\ [][SubmitNext]_vars

(***************************************************************************)
(* Properties of submit_output_aware                                       *)
(***************************************************************************)
\* the task's cache policy is or contains a PathHashesCP
HasPathHashesCP ==
    \/ self.cache_policy.kind = "PathHashesCP"
    \/ \E k \in 1..Len(self.cache_policy.policies) :
           self.cache_policy.policies[k].kind = "PathHashesCP"

\* the output parameters of the task's PathHashesCP
OutputParameters ==
    LET po == FindPathHashesCP(self.cache_policy).parameters_output
    IN  { po[k] : k \in 1..Len(po) }

\* submit_output_aware has ended
SubmitCalled == Done /\ trace = <<"submit_output_aware">>

\* the task was submitted with the keyword arguments of the call, with
\* refresh_cache forced on if refresh, as it was otherwise
SubmittedWith(refresh) ==
    /\ outcome = "returned"
    /\ y_out = [task |-> IF refresh THEN [self EXCEPT !.refresh_cache = TRUE] ELSE self,
                kwargs |-> args.kwargs]

\* C30: submit_output_aware raises AssertionError, submitting nothing, when
\* the task's cache policy neither is nor contains a PathHashesCP; it raises
\* KeyError, submitting nothing, when an output parameter is not passed as a
\* keyword argument; otherwise it submits the task with refresh_cache forced
\* on exactly when some output parameter names a path that does not exist,
\* and unchanged when all output paths exist
C30_OutputAwareSubmission ==
    SubmitCalled =>
        IF ~HasPathHashesCP
        THEN outcome = "AssertionError" /\ y_out = None
        ELSE IF \E p \in OutputParameters : p \notin DOMAIN args.kwargs
        THEN outcome = "KeyError" /\ y_out = None
        ELSE SubmittedWith(\E p \in OutputParameters : ~args.kwargs[p])

\* what the loop does: the output parameters are looked at in their order
\* and only up to the first path that does not exist, so that a parameter
\* after it that is not a keyword argument goes unnoticed
OutputAwareSubmissionInOrder ==
    SubmitCalled =>
        IF ~HasPathHashesCP
        THEN outcome = "AssertionError" /\ y_out = None
        ELSE LET po == FindPathHashesCP(self.cache_policy).parameters_output
                 absent == { k \in 1..Len(po) : po[k] \notin DOMAIN args.kwargs }
                 missing == { k \in 1..Len(po) : po[k] \in DOMAIN args.kwargs
                                                 /\ ~args.kwargs[po[k]] }
             IN  IF \E k \in absent : \A j \in missing : k < j
                 THEN outcome = "KeyError" /\ y_out = None
                 ELSE SubmittedWith(missing # {})

\* a task was submitted with refresh_cache forced on although one of its
\* output parameters was not a keyword argument
SubmittedDespiteAbsentKeywordReached ==
    /\ SubmitCalled
    /\ HasPathHashesCP
    /\ \E p \in OutputParameters : p \notin DOMAIN args.kwargs
    /\ outcome = "returned"
    /\ y_out.task.refresh_cache /\ ~self.refresh_cache

\* a task with two existing output paths was submitted unchanged
SubmittedUnchangedReached ==
    /\ SubmitCalled
    /\ Cardinality(OutputParameters) = 2
    /\ \A p \in OutputParameters : p \in DOMAIN args.kwargs /\ args.kwargs[p]
    /\ outcome = "returned"
    /\ y_out.task = self /\ ~self.refresh_cache

====
